---- MODULE Spec2Model ----
(***************************************************************************)
(* State-machine model of the mccore-webapi launcher API.                  *)
(*                                                                         *)
(* Spec      : the manifest resolution pipeline (POST /assets/launcher of  *)
(*             the public router and utils/manifest fetchAndSignManifest). *)
(* HwidSpec  : the HWID ledger (POST /hwid and POST /hwid/joined of the    *)
(*             public router over the hwid_logs / hwid_joined tables).     *)
(* BanSpec   : the ban list (admin /hwids/bans) next to /hwid/joined.      *)
(* AuthSpec  : the admin router behind authenticateApiKey, and the key     *)
(*             routes over table api_keys.                                 *)
(* AssetSpec : create, update and delete of launcher assets (admin         *)
(*             /assets), each awaited statement a step of its own.         *)
(* CreateSpec: POST /assets and DELETE /assets/:clientId, one at a time.   *)
(* SearchSpec: the HWID log search (admin GET /hwids).                     *)
(* JavaSpec  : the Java asset (admin /java, public /assets/java).          *)
(* SetupSpec : POST /setup/create-first-key, and optionalApiKeyAuth.       *)
(* NewsSpec  : news articles (admin /news, public /news).                  *)
(* SubmitSpec: validation of POST /hwid submissions.                       *)
(* WebSpec   : the web admin interface (routes/web).                       *)
(* BootSpec  : initializeDatabase, getDatabase and closeDatabase.          *)
(* FairSpec  : Spec with the fairness the manifest requests have.          *)
(*                                                                         *)
(* Strings that the code concatenates or compares (URLs, signatures, file  *)
(* maps) are tuples, so that every value of one kind compares with every   *)
(* other; the empty tuple is the empty / missing value.                    *)
(***************************************************************************)
EXTENDS Integers, Sequences, FiniteSets, TLC

VARIABLES
    launcher_assets,  \* rows of table launcher_assets
    canSign,          \* formats (1..3) under which crypto sign() accepts the stored key
    hpc,              \* position of the /assets/launcher handler
    reqVersion,       \* req.body.version of the request being handled
    assetRead,        \* the row object the handler read (a set: empty before the read)
    urls,             \* the resolved baseUrl / modsManifestUrl / rpManifestUrl
    task,             \* the two fetchAndSignManifest calls under Promise.all
    response,         \* what the handler sent with res.status().json()
    sent,             \* number of responses written for the request
    hwid_joined,      \* rows of table hwid_joined
    hwid_logs,        \* rows of table hwid_logs, in insertion order
    hreq,             \* in-flight and finished /hwid and /hwid/joined requests
    clock,            \* CURRENT_TIMESTAMP of the store
    api_keys,         \* rows of table api_keys
    hwid_bans,        \* rows of table hwid_bans
    areq,             \* requests to the admin router: in flight, and (key and ban routes) answered
    alast,            \* the last asset or news request answered, and its outcome
    search,           \* the last HWID log search and its result
    sqlite_sequence,  \* the last id AUTOINCREMENT gave out in each table
    java_assets,      \* rows of table java_assets, in insertion order
    jreq,             \* in-flight and finished POST /java and PUT /java requests
    news,             \* rows of table news
    listing,          \* the last GET /public/news request and its result
    session,          \* req.session.apiKey of each browser of the web admin interface
    wlast,            \* the last request to the web router and its outcome
    wreq,             \* requests to the web router awaiting an answer of the API
    db,               \* the module variable db of database/index and the store behind it
    handed,           \* the getDatabase calls made by request handlers, in order
    llast             \* the last POST /hwid submission answered before its first await

resolveVars == <<launcher_assets, canSign, hpc, reqVersion, assetRead, urls, task, response, sent>>
hwidVars == <<hwid_joined, hwid_logs, hreq, clock>>
adminVars == <<api_keys, hwid_bans, areq, alast, search, sqlite_sequence>>
siteVars == <<java_assets, jreq, news, listing, session, wlast, wreq, db, handed, llast>>
vars == <<launcher_assets, canSign, hpc, reqVersion, assetRead, urls, task, response, sent,
          hwid_joined, hwid_logs, hreq, clock,
          api_keys, hwid_bans, areq, alast, search, sqlite_sequence,
          java_assets, jreq, news, listing, session, wlast, wreq, db, handed, llast>>

----------------------------------------------------------------------------
(* Values *)

Empty == <<>>

Versions == {"v1", "v2"}
UrlFields == {"base_url", "mods_manifest_url", "rp_manifest_url"}

\* the asset's default triple, and the override a version_configs entry carries
DefaultUrl(f) == <<"default", f>>
OverrideUrl(v, f) == <<"vc", v, f>>

\* TEXT columns holding JSON: SQL NULL, text JSON.parse rejects, or JSON text
NullText == [kind |-> "null", val |-> {}]
InvalidText == [kind |-> "invalid", val |-> {}]
JsonText(v) == [kind |-> "json", val |-> v]

\* a version_configs entry: each field is an override or empty/missing
VcEntries(v) ==
    [ver : {v},
     base_url : {Empty, OverrideUrl(v, "base_url")},
     mods_manifest_url : {Empty, OverrideUrl(v, "mods_manifest_url")},
     rp_manifest_url : {Empty, OverrideUrl(v, "rp_manifest_url")}]

\* an entry that overrides every field
FullEntry(v) ==
    [ver |-> v, base_url |-> OverrideUrl(v, "base_url"),
     mods_manifest_url |-> OverrideUrl(v, "mods_manifest_url"),
     rp_manifest_url |-> OverrideUrl(v, "rp_manifest_url")]

\* version_configs objects: no entry, any entry for v1, a full entry for v2,
\* or an entry for each
VcObjects ==
    {{}} \cup {{e} : e \in VcEntries("v1")} \cup {{FullEntry("v2")}}
         \cup {{e, FullEntry("v2")} : e \in {FullEntry("v1"),
                    [FullEntry("v1") EXCEPT !.mods_manifest_url = Empty]}}

VersionConfigsTexts == {NullText, InvalidText} \cup {JsonText(o) : o \in VcObjects}

SocialObjects == {{}, {<<"discord", "https://discord.gg/x">>}}
SocialTexts == {InvalidText} \cup {JsonText(o) : o \in SocialObjects}

\* the versions column: NULL for a legacy row, else the JSON of a list
VersionLists == {<<"v1", "v2">>, <<"v2", "v1">>}
VersionsTexts == {[kind |-> "null", val |-> <<>>], [kind |-> "invalid", val |-> <<>>]}
                 \cup {[kind |-> "json", val |-> l] : l \in VersionLists}

ClientId == "acme"

\* rows the table can hold for client ClientId; with a list, version is its head.
\* Every version_configs and social_media value is combined with a legacy row
\* and a two-version row; the other versions values come with one row each.
AssetRows ==
    {r \in [id : {1},
            client_id : {ClientId},
            version : Versions,
            versions : VersionsTexts,
            base_url : {DefaultUrl("base_url")},
            mods_manifest_url : {DefaultUrl("mods_manifest_url")},
            rp_manifest_url : {DefaultUrl("rp_manifest_url")},
            version_configs : VersionConfigsTexts,
            social_media : SocialTexts] :
        /\ r.versions.kind = "json" => r.version = Head(r.versions.val)
        /\ r.versions.kind # "json" => r.version = "v1"
        /\ \/ r.versions \in {[kind |-> "null", val |-> <<>>],
                               [kind |-> "json", val |-> <<"v1", "v2">>]}
           \/ /\ r.version_configs = JsonText({FullEntry("v1"), FullEntry("v2")})
              /\ r.social_media = JsonText({})}

----------------------------------------------------------------------------
(* utils/manifest *)

PlaceholderSignature == <<"placeholder_signature_for_testing">>

\* the three key reconstructions of trySignWithDifferentFormats, in order
formats ==
    << [header |-> "PRIVATE KEY", lineLength |-> 0],
       [header |-> "RSA PRIVATE KEY", lineLength |-> 0],
       [header |-> "PRIVATE KEY", lineLength |-> 64] >>

\* sign.sign(formattedKey, 'hex') for the i-th reconstruction over data
SignatureOf(i, data) == <<"sig", formats[i].header, formats[i].lineLength, data>>

RECURSIVE TrySignFrom(_, _)
TrySignFrom(i, data) ==
    IF i > Len(formats) THEN [ok |-> FALSE, signature |-> Empty]
    ELSE IF i \in canSign THEN [ok |-> TRUE, signature |-> SignatureOf(i, data)]
    ELSE TrySignFrom(i + 1, data)

trySignWithDifferentFormats_LastWins(data) ==
    IF canSign = {} THEN [ok |-> FALSE, signature |-> Empty]
    ELSE [ok |-> TRUE,
          signature |-> SignatureOf(CHOOSE i \in canSign : \A j \in canSign : j <= i, data)]

\* ok = FALSE stands for the throw 'All private key formats failed'
trySignWithDifferentFormats(data) == TrySignFrom(1, data)

SignOrPlaceholder_Rethrow(data) ==
    LET s == trySignWithDifferentFormats(data)
    IN  IF s.ok THEN [ok |-> TRUE, signature |-> s.signature]
        ELSE [ok |-> FALSE, signature |-> Empty]

\* the try/catch around the signing call: a failure becomes the placeholder
SignOrPlaceholder(data) ==
    LET s == trySignWithDifferentFormats(data)
    IN  IF s.ok THEN [ok |-> TRUE, signature |-> s.signature]
        ELSE [ok |-> TRUE, signature |-> PlaceholderSignature]

\* HTTP
Statuses == {200, 204, 302, 404}
\* response.headers.location: absent, or a string
Locations == {"none", "string"}
\* statusCode recorded for a request that got no response yet / that rejected
NoStatus == 0
NetworkError == -1

IsRedirect(status, location) ==
    status >= 300 /\ status < 400 /\ location = "string"

StatusOk_Any2xx3xx(status) == status >= 200 /\ status < 400

StatusOk(status) == status = 200

\* response bodies: not JSON, the JSON null, a manifest with or without files
BodyKinds == {"invalid", "null", "files", "nofiles"}

\* JSON.stringify(manifestData) of the body served at url
ManifestText(kind, url) == <<"manifest", kind, url>>
\* manifestData.files || {}
ManifestFiles(kind, url) == IF kind = "files" THEN <<"files", url>> ELSE Empty

Tasks == {"mods", "rp"}

IdleTask == [pc |-> "idle", nreq |-> 0, url |-> Empty,
             status1 |-> NoStatus, location1 |-> "none", status2 |-> NoStatus,
             body |-> "none", files |-> Empty, signature |-> Empty]

\* url the body finally came from
FinalUrl(t) == IF task[t].nreq = 2 THEN <<"location", task[t].url>> ELSE task[t].url

\* first response of request(fullUrl) arrives (or the request rejects)
FirstResponse(t) ==
    /\ task[t].pc = "req1"
    /\ \E netError \in BOOLEAN, status \in Statuses, location \in Locations :
         task' = [task EXCEPT ![t] =
            IF netError THEN [@ EXCEPT !.pc = "failed", !.status1 = NetworkError]
            ELSE IF IsRedirect(status, location)
                 THEN [@ EXCEPT !.pc = "req2", !.nreq = @ + 1,
                                !.status1 = status, !.location1 = location]
            ELSE IF ~StatusOk(status)
                 THEN [@ EXCEPT !.pc = "failed", !.status1 = status, !.location1 = location]
            ELSE [@ EXCEPT !.pc = "body", !.status1 = status, !.location1 = location]]
    /\ UNCHANGED <<launcher_assets, canSign, hpc, reqVersion, assetRead, urls, response, sent>>
    /\ UNCHANGED <<hwidVars, adminVars, siteVars>>

\* response of request(location) arrives
RedirectResponse(t) ==
    /\ task[t].pc = "req2"
    /\ \E netError \in BOOLEAN, status \in Statuses :
         task' = [task EXCEPT ![t] =
            IF netError THEN [@ EXCEPT !.pc = "failed", !.status2 = NetworkError]
            ELSE IF ~StatusOk(status) THEN [@ EXCEPT !.pc = "failed", !.status2 = status]
            ELSE [@ EXCEPT !.pc = "body", !.status2 = status]]
    /\ UNCHANGED <<launcher_assets, canSign, hpc, reqVersion, assetRead, urls, response, sent>>
    /\ UNCHANGED <<hwidVars, adminVars, siteVars>>

\* body.json() settles; sign; return { files, signature }
BodyAndSign(t) ==
    /\ task[t].pc = "body"
    /\ \E kind \in BodyKinds :
         LET s == SignOrPlaceholder(ManifestText(kind, FinalUrl(t)))
         IN  task' = [task EXCEPT ![t] =
                IF kind = "invalid" \/ ~s.ok \/ kind = "null"
                THEN [@ EXCEPT !.pc = "failed", !.body = kind]
                ELSE [@ EXCEPT !.pc = "done", !.body = kind,
                               !.files = ManifestFiles(kind, FinalUrl(t)),
                               !.signature = s.signature]]
    /\ UNCHANGED <<launcher_assets, canSign, hpc, reqVersion, assetRead, urls, response, sent>>
    /\ UNCHANGED <<hwidVars, adminVars, siteVars>>

----------------------------------------------------------------------------
(* routes/public: POST /assets/launcher *)

getLauncherAssetByClientId(cid) == {a \in launcher_assets : a.client_id = cid}

\* JSON.parse of a TEXT column
JSONparse(text) ==
    IF text.kind = "invalid" THEN [ok |-> FALSE, val |-> {}]
    ELSE [ok |-> TRUE, val |-> text.val]

formatVersionsForApi_FirstOnly(text) ==
    IF text.kind = "json" /\ text.val # <<>> THEN <<Head(text.val)>> ELSE <<>>

formatVersionsForApi(text) ==
    IF text.kind = "json" THEN text.val ELSE <<>>

\* version: versionsArray.length > 0 ? versionsArray : [asset.version]
ResponseVersion(asset) ==
    LET versionsArray == formatVersionsForApi(asset.versions)
    IN  IF Len(versionsArray) > 0 THEN versionsArray ELSE <<asset.version>>

UseVersion_DefaultToFirst(requestedVersion, asset) ==
    IF requestedVersion # "" THEN requestedVersion ELSE ResponseVersion(asset)[1]

\* useVersion = requestedVersion || undefined ("" is absent)
UseVersion(requestedVersion, asset) == requestedVersion

OrDefault_AllOrNothing(value, dflt) == value

\* vc[useVersion].f || f
OrDefault(value, dflt) == IF value # Empty THEN value ELSE dflt

DefaultTriple(asset) ==
    [base_url |-> asset.base_url,
     mods_manifest_url |-> asset.mods_manifest_url,
     rp_manifest_url |-> asset.rp_manifest_url]

\* the try { ... } catch {} block choosing the URLs
ResolveUrls(asset, requestedVersion) ==
    LET vc == IF asset.version_configs.kind = "null" THEN [ok |-> TRUE, val |-> {}]
              ELSE JSONparse(asset.version_configs)
        useVersion == UseVersion(requestedVersion, asset)
        hit == IF vc.ok /\ useVersion # "" THEN {e \in vc.val : e.ver = useVersion} ELSE {}
    IN  IF hit = {} THEN DefaultTriple(asset)
        ELSE LET e == CHOOSE x \in hit : TRUE
             IN  [base_url |-> OrDefault(e.base_url, asset.base_url),
                  mods_manifest_url |-> OrDefault(e.mods_manifest_url, asset.mods_manifest_url),
                  rp_manifest_url |-> OrDefault(e.rp_manifest_url, asset.rp_manifest_url)]

ParseSocialMedia_Strict(text) ==
    IF text.kind = "null" THEN [ok |-> TRUE, val |-> {}] ELSE JSONparse(text)

\* the try/catch around JSON.parse(asset.social_media)
ParseSocialMedia(text) ==
    IF text.kind = "null" \/ ~JSONparse(text).ok THEN [ok |-> TRUE, val |-> {}]
    ELSE JSONparse(text)

NoTriple == [base_url |-> Empty, mods_manifest_url |-> Empty, rp_manifest_url |-> Empty]
NoPart == [files |-> Empty, signature |-> Empty]
NoResponse == [status |-> 0, base |-> Empty, mods |-> NoPart, rp |-> NoPart,
               version |-> <<>>, social_media |-> {}]
ErrorResponse(code) == [NoResponse EXCEPT !.status = code]

ClientIds == {"", ClientId, "other"}
RequestVersions == {""} \cup Versions

\* the handler up to the await of Promise.all
ResolveStart(cid, ver) ==
    /\ hpc = "idle"
    /\ reqVersion' = ver
    /\ IF cid = ""
       THEN /\ response' = ErrorResponse(400) /\ sent' = sent + 1 /\ hpc' = "responded"
            /\ UNCHANGED <<assetRead, urls, task>>
       ELSE IF getLauncherAssetByClientId(cid) = {}
       THEN /\ response' = ErrorResponse(404) /\ sent' = sent + 1 /\ hpc' = "responded"
            /\ UNCHANGED <<assetRead, urls, task>>
       ELSE LET row == CHOOSE a \in getLauncherAssetByClientId(cid) : TRUE
                u == ResolveUrls(row, ver)
            IN  /\ assetRead' = {row}
                /\ urls' = u
                /\ task' = [t \in Tasks |->
                      [IdleTask EXCEPT !.pc = "req1", !.nreq = 1,
                         !.url = <<u.base_url,
                                   IF t = "mods" THEN u.mods_manifest_url
                                   ELSE u.rp_manifest_url>>]]
                /\ hpc' = "awaiting"
                /\ UNCHANGED <<response, sent>>
    /\ UNCHANGED <<launcher_assets, canSign>>
    /\ UNCHANGED <<hwidVars, adminVars, siteVars>>

PromiseAllFulfilled_Any == \E t \in Tasks : task[t].pc = "done"

PromiseAllFulfilled == \A t \in Tasks : task[t].pc = "done"

PromiseAllRejected == \E t \in Tasks : task[t].pc = "failed"

\* Promise.all fulfilled: the rest of the try block
ResolveRespond ==
    /\ hpc = "awaiting"
    /\ PromiseAllFulfilled
    /\ LET row == CHOOSE a \in assetRead : TRUE    \* the object read before the await
           social == ParseSocialMedia(row.social_media)
       IN  response' =
             IF ~social.ok THEN ErrorResponse(500)
             ELSE [status |-> 200,
                   base |-> urls.base_url,
                   mods |-> [files |-> task["mods"].files, signature |-> task["mods"].signature],
                   rp |-> [files |-> task["rp"].files, signature |-> task["rp"].signature],
                   version |-> ResponseVersion(row),
                   social_media |-> social.val]
    /\ sent' = sent + 1
    /\ hpc' = "responded"
    /\ UNCHANGED <<launcher_assets, canSign, reqVersion, assetRead, urls, task>>
    /\ UNCHANGED <<hwidVars, adminVars, siteVars>>

\* Promise.all rejected: the catch block
ResolveFail ==
    /\ hpc = "awaiting"
    /\ PromiseAllRejected
    /\ response' = ErrorResponse(500)
    /\ sent' = sent + 1
    /\ hpc' = "responded"
    /\ UNCHANGED <<launcher_assets, canSign, reqVersion, assetRead, urls, task>>
    /\ UNCHANGED <<hwidVars, adminVars, siteVars>>

HwidIdle ==
    /\ hwid_joined = {}
    /\ hwid_logs = <<>>
    /\ hreq = <<>>
    /\ clock = 0

NoAssetRequest ==
    [op |-> "none", status |-> 0, version |-> [shape |-> "absent", items |-> <<>>],
     versions |-> [shape |-> "absent", items |-> <<>>],
     version_configs |-> "absent", base_url |-> <<>>,
     urls |-> [base_url |-> <<>>, mods_manifest_url |-> <<>>, rp_manifest_url |-> <<>>],
     configs |-> [shape |-> "absent", val |-> {}]]

NoSearch == [pc |-> "idle", filters |-> <<>>,
             limit |-> <<>>, offset |-> <<>>, total |-> 0, logs |-> <<>>]

AdminIdle ==
    /\ api_keys = {}
    /\ hwid_bans = {}
    /\ areq = <<>>
    /\ alast = NoAssetRequest
    /\ search = NoSearch

\* the last news listing: none asked yet
NoListing == [asked |-> FALSE, client_id |-> <<>>, ids |-> {}]

\* the last web request: none made yet
NoWebRequest == [route |-> "none", browser |-> "none", key |-> <<>>, result |-> "none"]

\* the browsers holding a session cookie of the web interface
Browsers == {"b1", "b2"}

\* the tables initializeTables creates, in the order of its statements
Tables == <<"api_keys", "launcher_assets", "java_assets", "news">>
AllTables == {Tables[k] : k \in DOMAIN Tables}

\* db after initializeDatabase has resolved on a store of the current
\* version: the handle is set, the tables exist with their columns
ReadyDb ==
    [handle |-> TRUE, pc |-> "done", stmt |-> 0, closing |-> FALSE,
     tables |-> AllTables, client_id |-> TRUE, social_media |-> TRUE,
     news_client_id |-> TRUE, data |-> FALSE]

NoSubmission == [status |-> 0, missing |-> FALSE, login_date |-> "absent"]

\* if (!db) throw new Error('Database not initialized...'); return db
getDatabase == IF ~db.handle THEN "Database not initialized" ELSE "handle"

\* the highest id of a set of rows, 0 for none
MaxId(rows) ==
    IF rows = {} THEN 0
    ELSE CHOOSE n \in {row.id : row \in rows} : \A row \in rows : row.id <= n

\* sqlite_sequence of a store whose rows were inserted one after another
SequenceIdle ==
    sqlite_sequence = [launcher_assets |-> MaxId(launcher_assets), news |-> MaxId(news)]

SiteIdle ==
    /\ java_assets = <<>>
    /\ jreq = <<>>
    /\ news = {}
    /\ listing = NoListing
    /\ session = [b \in Browsers |-> <<>>]
    /\ wlast = NoWebRequest
    /\ wreq = <<>>
    /\ db = ReadyDb
    /\ handed = <<>>
    /\ llast = NoSubmission

\* a plain row, used where the key varies
PlainRow ==
    CHOOSE r \in AssetRows :
        /\ r.versions = [kind |-> "json", val |-> <<"v1", "v2">>]
        /\ r.version_configs = JsonText({FullEntry("v2")})
        /\ r.social_media = JsonText({})

\* stored configurations: an empty table, every row with a key every format
\* accepts, and the plain row with every key class
Configurations ==
    {<<{}, {}>>}
    \cup {<<{r}, 1..3>> : r \in AssetRows}
    \cup {<<{PlainRow}, k>> : k \in SUBSET (1..3)}

Init ==
    /\ \E c \in Configurations : launcher_assets = c[1] /\ canSign = c[2]
    /\ hpc = "idle"
    /\ reqVersion = ""
    /\ assetRead = {}
    /\ urls = NoTriple
    /\ task = [t \in Tasks |-> IdleTask]
    /\ response = NoResponse
    /\ sent = 0
    /\ HwidIdle
    /\ AdminIdle
    /\ SiteIdle
    /\ SequenceIdle

Next ==
    \/ \E cid \in ClientIds, ver \in RequestVersions : ResolveStart(cid, ver)
    \/ \E t \in Tasks : FirstResponse(t)
    \/ \E t \in Tasks : RedirectResponse(t)
    \/ \E t \in Tasks : BodyAndSign(t)
    \/ ResolveRespond
    \/ ResolveFail

Spec == Init /\ [][Next]_vars

----------------------------------------------------------------------------
(* Properties of the manifest signer and of resolve, checked under Spec *)

TheAsset == CHOOSE a \in assetRead : TRUE
Resolving == hpc \in {"awaiting", "responded"} /\ assetRead # {} /\ task["mods"].pc # "idle"

\* the body parsed into a manifest (a JSON value other than null)
ManifestFetched(t) == task[t].body \in {"files", "nofiles"}

FirstSigning == CHOOSE i \in canSign : \A j \in canSign : i <= j

\* C1: when the manifest was fetched and no key reconstruction signs, the call
\* returns (does not raise) with the placeholder signature and the manifest's files.
C1_PlaceholderOnSignFailure ==
    \A t \in Tasks :
        (ManifestFetched(t) /\ canSign = {}) =>
            /\ task[t].pc = "done"
            /\ task[t].signature = PlaceholderSignature
            /\ task[t].files = ManifestFiles(task[t].body, FinalUrl(t))

C1_Witness ==
    /\ canSign = {}
    /\ task["mods"].pc = "done" /\ task["mods"].nreq = 2 /\ task["mods"].body = "files"
    /\ task["mods"].signature = PlaceholderSignature
    /\ task["rp"].pc = "done" /\ task["rp"].nreq = 1 /\ task["rp"].body = "nofiles"

\* C2: when the manifest was fetched and some reconstruction signs, the signature
\* is the one of the first reconstruction (in the order 1, 2, 3) that signs, never
\* the placeholder.
C2_FirstSigningFormatWins ==
    \A t \in Tasks :
        (ManifestFetched(t) /\ canSign # {}) =>
            /\ task[t].pc = "done"
            /\ task[t].signature =
                 <<"sig", formats[FirstSigning].header, formats[FirstSigning].lineLength,
                   ManifestText(task[t].body, FinalUrl(t))>>
            /\ task[t].signature # PlaceholderSignature

C2_Witness ==
    /\ canSign = {2, 3}
    /\ task["mods"].pc = "done"
    /\ task["mods"].signature[2] = "RSA PRIVATE KEY"

\* C3: a success response is sent only when both signer calls succeeded; once a
\* call failed the one response sent is the 500 error, carrying no files and no
\* signature of the other manifest.
C3_BothOrError ==
    /\ sent <= 1
    /\ response.status = 200 => \A t \in Tasks : task[t].pc = "done"
    /\ (hpc = "responded" /\ \E t \in Tasks : task[t].pc = "failed") =>
          /\ response.status = 500
          /\ response.mods = NoPart /\ response.rp = NoPart
          /\ response.base = Empty

C3_Witness ==
    /\ hpc = "responded" /\ response.status = 500
    /\ task["mods"].pc = "done" /\ task["mods"].files # Empty
    /\ task["rp"].pc = "failed"

Is3xx(status) == status >= 300 /\ status < 400
Is2xx(status) == status >= 200 /\ status < 300

\* C4: at most two requests per call; the second is issued exactly when the first
\* response is 3xx with a Location header; a second response that is a redirect or
\* not 2xx, and a first non-redirect response that is not 2xx, fail the call.
C4_AtMostOneRedirect ==
    \A t \in Tasks :
        /\ task[t].nreq <= 2
        /\ (task[t].status1 > 0 /\ Is3xx(task[t].status1) /\ task[t].location1 = "string")
              <=> task[t].nreq = 2
        /\ (task[t].status2 > 0 /\ (Is3xx(task[t].status2) \/ ~Is2xx(task[t].status2)))
              => task[t].pc = "failed"
        /\ (task[t].status1 > 0 /\ ~Is3xx(task[t].status1) /\ ~Is2xx(task[t].status1))
              => task[t].pc = "failed"

C4_Witness ==
    /\ task["mods"].nreq = 2 /\ task["mods"].status2 = 302 /\ task["mods"].pc = "failed"
    /\ task["rp"].status1 = 404 /\ task["rp"].pc = "failed"

\* the entry version_configs holds for version v, if its text is JSON
VcEntryFor(asset, v) ==
    IF asset.version_configs.kind = "json"
    THEN {e \in asset.version_configs.val : e.ver = v}
    ELSE {}

StoredVersions(asset) ==
    IF asset.versions.kind = "json" THEN asset.versions.val ELSE <<asset.version>>

EffectiveVersion(asset) ==
    IF reqVersion # "" THEN reqVersion ELSE StoredVersions(asset)[1]

UrlOf(triple, f) ==
    IF f = "base_url" THEN triple.base_url
    ELSE IF f = "mods_manifest_url" THEN triple.mods_manifest_url
    ELSE triple.rp_manifest_url

EntryUrl(e, f) == UrlOf(e, f)

FetchedAndReturned ==
    /\ task["mods"].url = <<urls.base_url, urls.mods_manifest_url>>
    /\ task["rp"].url = <<urls.base_url, urls.rp_manifest_url>>
    /\ response.status = 200 => response.base = urls.base_url

\* C5 as stated: the effective version is the requested one or else the first
\* stored version, and an entry of version_configs for it supplies the URLs
\* fetched and returned.
C5_Original ==
    Resolving =>
        /\ FetchedAndReturned
        /\ \A e \in VcEntryFor(TheAsset, EffectiveVersion(TheAsset)) :
              \A f \in UrlFields : EntryUrl(e, f) # Empty => UrlOf(urls, f) = EntryUrl(e, f)

\* C5 amended: an entry of version_configs supplies the URLs only for a version
\* the request names; a request without a version resolves to the default triple
\* even when version_configs has an entry for the first stored version.
C5_RequestedVersionOnly ==
    Resolving =>
        /\ FetchedAndReturned
        /\ reqVersion # "" =>
              \A e \in VcEntryFor(TheAsset, reqVersion) :
                 \A f \in UrlFields : EntryUrl(e, f) # Empty => UrlOf(urls, f) = EntryUrl(e, f)
        /\ reqVersion = "" => urls = DefaultTriple(TheAsset)

C5_Witness ==
    /\ response.status = 200 /\ reqVersion = ""
    /\ StoredVersions(TheAsset)[1] = "v1"
    /\ FullEntry("v1") \in VcEntryFor(TheAsset, "v1")
    /\ response.base = DefaultUrl("base_url")
    /\ task["mods"].url = <<DefaultUrl("base_url"), DefaultUrl("mods_manifest_url")>>

\* C6: with a requested version v each of the three URLs is, on its own, the value
\* of version_configs[v] when that entry exists and has the field non-empty, and
\* the asset's default otherwise.
C6_PerFieldFallback ==
    (Resolving /\ reqVersion # "") =>
        \A f \in UrlFields :
            UrlOf(urls, f) =
                IF \E e \in VcEntryFor(TheAsset, reqVersion) : EntryUrl(e, f) # Empty
                THEN EntryUrl(CHOOSE e \in VcEntryFor(TheAsset, reqVersion) : TRUE, f)
                ELSE UrlOf(DefaultTriple(TheAsset), f)

C6_Witness ==
    /\ response.status = 200 /\ reqVersion = "v1"
    /\ response.base = OverrideUrl("v1", "base_url")
    /\ task["mods"].url = <<OverrideUrl("v1", "base_url"), DefaultUrl("mods_manifest_url")>>
    /\ task["rp"].url = <<OverrideUrl("v1", "base_url"), OverrideUrl("v1", "rp_manifest_url")>>

\* C7: a success response carries the whole stored versions list in stored order
\* whatever version was requested, and for a row without a versions list the
\* one-element list of the legacy version field.
C7_FullVersionList ==
    response.status = 200 =>
        /\ TheAsset.versions.kind = "json" => response.version = TheAsset.versions.val
        /\ TheAsset.versions.kind = "null" => response.version = <<TheAsset.version>>

C7_Witness ==
    /\ response.status = 200 /\ reqVersion = "v1"
    /\ response.version = <<"v2", "v1">>

C7_WitnessLegacy ==
    /\ response.status = 200
    /\ TheAsset.versions.kind = "null" /\ response.version = <<"v1">>

\* C8: social_media or version_configs text that is not JSON does not fail the
\* resolution: with both manifests fetched the response is a success, with an
\* empty social_media map, respectively with the default triple as URLs.
C8_MalformedJsonDegrades ==
    (Resolving /\ hpc = "responded" /\ \A t \in Tasks : task[t].pc = "done") =>
        /\ TheAsset.social_media.kind = "invalid" =>
              response.status = 200 /\ response.social_media = {}
        /\ TheAsset.version_configs.kind = "invalid" =>
              /\ response.status = 200
              /\ urls = DefaultTriple(TheAsset)
              /\ response.base = TheAsset.base_url

C8_Witness ==
    /\ response.status = 200 /\ reqVersion = "v1"
    /\ TheAsset.social_media.kind = "invalid"
    /\ TheAsset.version_configs.kind = "invalid"
    /\ response.social_media = {}

----------------------------------------------------------------------------
(* routes/public: POST /hwid and POST /hwid/joined; database/operations *)

MaxRequests == 3

Hwids == {"h1", "h2"}
\* req.body.has_joined_with_this_hwid
FlagValues == {"true", "false", "absent"}

isHwidJoined_FromLogs(h) ==
    \E k \in DOMAIN hwid_logs :
        hwid_logs[k].hwid = h /\ hwid_logs[k].has_joined_with_this_hwid

\* SELECT id FROM hwid_joined WHERE hwid = ?
isHwidJoined(h) == \E row \in hwid_joined : row.hwid = h

HasJoinedFlag_SubmittedOnly(joined, flag) == flag = "true"

\* joined || !!has_joined_with_this_hwid
HasJoinedFlag(joined, flag) == joined \/ flag = "true"

\* some markJoined(h) request has been answered
MarkCompleted(h) ==
    \E i \in DOMAIN hreq : hreq[i].op = "mark" /\ hreq[i].hwid = h /\ hreq[i].pc = "done"

\* a log row for h carrying the flag true is stored
TrueRowStored(h) ==
    \E k \in DOMAIN hwid_logs :
        hwid_logs[k].hwid = h /\ hwid_logs[k].has_joined_with_this_hwid

\* req.body.login_date: absent (or falsy), a string that names an instant, a
\* string that is no date
NoDate == [text |-> "absent", at |-> 0]
NotADate == [text |-> "unparseable", at |-> 0]
SentDate(d) == [text |-> "valid", at |-> d]

\* the instant a submitted date names: after the first arrival, before later ones
SentInstants == {1}
LoginDateInputs == {NoDate, NotADate} \cup {SentDate(d) : d \in SentInstants}

\* login_date ? new Date(login_date).toISOString() : new Date().toISOString():
\* the instant of the submitted date, or now; toISOString throws RangeError on
\* an invalid date
LoginDateIso(date, now) ==
    IF date.text = "unparseable" THEN [threw |-> TRUE, at |-> 0]
    ELSE IF date.text = "valid" THEN [threw |-> FALSE, at |-> date.at]
    ELSE [threw |-> FALSE, at |-> now]

\* Number.isNaN(Date.parse(loginDateIso)): an ISO string always parses
IsoIsNaN(iso) == FALSE

\* the status of a submission answered before isHwidJoined is called, 0 for
\* one that passes the checks
SubmissionStatus(missing, date) ==
    IF missing THEN 400                               \* a required field is missing
    ELSE IF LoginDateIso(date, clock).threw THEN 500  \* thrown into the catch block
    ELSE IF IsoIsNaN(LoginDateIso(date, clock)) THEN 400
    ELSE 0

\* POST /hwid with a submission that does not reach isHwidJoined
LogReject(missing, date) ==
    /\ SubmissionStatus(missing, date) # 0
    /\ llast' = [status |-> SubmissionStatus(missing, date), missing |-> missing,
                 login_date |-> date.text]
    /\ UNCHANGED <<java_assets, jreq, news, listing, session, wlast, wreq, db, handed>>
    /\ UNCHANGED <<resolveVars, hwidVars, adminVars>>

\* a request past its checks; for POST /hwid loginDateIso is fixed here
NewRequest(op, h, flag, date, pc) ==
    [op |-> op, hwid |-> h, flag |-> flag, pc |-> pc,
     login_date |-> IF op = "log" THEN LoginDateIso(date, clock).at ELSE 0,
     joined |-> FALSE, id |-> 0, created_at |-> 0,
     afterMarkCompleted |-> MarkCompleted(h),
     afterMarker |-> (\E row \in hwid_joined : row.hwid = h),
     afterTrueRow |-> TrueRowStored(h)]

\* POST /hwid: validation passes, loginDateIso is the submitted date or the
\* time of arrival, and isHwidJoined is issued; time passes before anything
\* else happens
LogStart(h, flag, date) ==
    /\ Len(hreq) + Len(areq) < MaxRequests
    /\ SubmissionStatus(FALSE, date) = 0
    /\ hreq' = Append(hreq, NewRequest("log", h, flag, date, "read"))
    /\ clock' = clock + 1
    /\ UNCHANGED <<hwid_joined, hwid_logs>>
    /\ UNCHANGED <<resolveVars, adminVars, siteVars>>

\* the isHwidJoined query runs
LogRead(i) ==
    /\ hreq[i].op = "log" /\ hreq[i].pc = "read"
    /\ hreq' = [hreq EXCEPT ![i].joined = isHwidJoined(hreq[i].hwid), ![i].pc = "insert"]
    /\ UNCHANGED <<hwid_joined, hwid_logs, clock>>
    /\ UNCHANGED <<resolveVars, adminVars, siteVars>>

\* createHwidLog runs and the 201 response is sent
LogInsert(i) ==
    /\ hreq[i].op = "log" /\ hreq[i].pc = "insert"
    /\ hwid_logs' = Append(hwid_logs,
          [id |-> Len(hwid_logs) + 1, hwid |-> hreq[i].hwid,
           launcher_install_uuid |-> "u1", player_name |-> "Steve",
           account_type |-> "microsoft",
           login_date |-> hreq[i].login_date,     \* payload.login_date
           ip_address |-> <<"10.0.0.1">>,
           has_joined_with_this_hwid |-> HasJoinedFlag(hreq[i].joined, hreq[i].flag),
           created_at |-> clock])
    /\ hreq' = [hreq EXCEPT ![i].id = Len(hwid_logs) + 1, ![i].pc = "done"]
    /\ clock' = clock + 1
    /\ UNCHANGED hwid_joined
    /\ UNCHANGED <<resolveVars, adminVars, siteVars>>

\* POST /hwid/joined: markHwidJoined is called
MarkStart(h) ==
    /\ Len(hreq) + Len(areq) < MaxRequests
    /\ hreq' = Append(hreq, NewRequest("mark", h, "absent", NoDate, "insert"))
    /\ UNCHANGED <<hwid_joined, hwid_logs, clock>>
    /\ UNCHANGED <<resolveVars, adminVars, siteVars>>

InsertJoinedOrIgnore_Replace(h) ==
    {row \in hwid_joined : row.hwid # h} \cup {[hwid |-> h, created_at |-> clock]}

\* the table after INSERT ... ON CONFLICT(hwid) DO NOTHING
InsertJoinedOrIgnore(h) ==
    IF \E row \in hwid_joined : row.hwid = h THEN hwid_joined
    ELSE hwid_joined \cup {[hwid |-> h, created_at |-> clock]}

\* INSERT INTO hwid_joined (hwid) VALUES (?) ON CONFLICT(hwid) DO NOTHING
MarkInsert(i) ==
    /\ hreq[i].op = "mark" /\ hreq[i].pc = "insert"
    /\ hwid_joined' = InsertJoinedOrIgnore(hreq[i].hwid)
    /\ hreq' = [hreq EXCEPT ![i].pc = "select"]
    /\ clock' = clock + 1
    /\ UNCHANGED hwid_logs
    /\ UNCHANGED <<resolveVars, adminVars, siteVars>>

\* SELECT * FROM hwid_joined WHERE hwid = ?, and the 201 response is sent
MarkSelect(i) ==
    /\ hreq[i].op = "mark" /\ hreq[i].pc = "select"
    /\ LET row == CHOOSE r \in hwid_joined : r.hwid = hreq[i].hwid
       IN  hreq' = [hreq EXCEPT ![i].created_at = row.created_at, ![i].pc = "done"]
    /\ UNCHANGED <<hwid_joined, hwid_logs, clock>>
    /\ UNCHANGED <<resolveVars, adminVars, siteVars>>

ResolveIdle ==
    /\ launcher_assets = {}
    /\ canSign = {}
    /\ hpc = "idle"
    /\ reqVersion = ""
    /\ assetRead = {}
    /\ urls = NoTriple
    /\ task = [t \in Tasks |-> IdleTask]
    /\ response = NoResponse
    /\ sent = 0

HwidInit == ResolveIdle /\ HwidIdle /\ AdminIdle /\ SiteIdle /\ SequenceIdle

HwidNext ==
    \/ LogReject(FALSE, NotADate)
    \/ \E h \in Hwids, flag \in FlagValues : LogStart(h, flag, NoDate)
    \/ \E d \in SentInstants : LogStart("h1", "absent", SentDate(d))
    \/ \E i \in DOMAIN hreq : LogRead(i)
    \/ \E i \in DOMAIN hreq : LogInsert(i)
    \/ \E h \in Hwids : MarkStart(h)
    \/ \E i \in DOMAIN hreq : MarkInsert(i)
    \/ \E i \in DOMAIN hreq : MarkSelect(i)

HwidSpec == HwidInit /\ [][HwidNext]_vars

----------------------------------------------------------------------------
(* Properties of the HWID ledger, checked under HwidSpec *)

LoggedFlag(i) == hwid_logs[hreq[i].id].has_joined_with_this_hwid
LogDone(i) == hreq[i].op = "log" /\ hreq[i].pc = "done"

\* C9: a logEvent for h that starts after a markJoined(h) has completed stores
\* the flag true whatever flag the submission gave.
C9_JoinedForcesFlag ==
    \A i \in DOMAIN hreq :
        (LogDone(i) /\ hreq[i].afterMarkCompleted) => LoggedFlag(i)

C9_Witness ==
    \E i, j \in DOMAIN hreq :
        /\ LogDone(i) /\ hreq[i].afterMarkCompleted /\ hreq[i].flag = "false" /\ LoggedFlag(i)
        /\ LogDone(j) /\ hreq[j].afterMarkCompleted /\ hreq[j].flag = "absent" /\ LoggedFlag(j)

\* C10 as stated: once a log row for h is stored with the flag true, no logEvent
\* for h that starts afterwards stores the flag false.
C10_Original ==
    \A i \in DOMAIN hreq :
        (LogDone(i) /\ hreq[i].afterTrueRow) => LoggedFlag(i)

\* C10 amended: the flag is monotonic with respect to the joined marker, not to
\* earlier log rows: once the marker for h is stored, no logEvent for h that
\* starts afterwards stores the flag false.
C10_MonotonicAfterMarker ==
    \A i \in DOMAIN hreq :
        (LogDone(i) /\ hreq[i].afterMarker) => LoggedFlag(i)

C10_Witness ==
    \E i \in DOMAIN hreq :
        /\ LogDone(i) /\ hreq[i].afterMarker /\ ~hreq[i].afterMarkCompleted
        /\ hreq[i].flag = "false" /\ LoggedFlag(i)
        /\ \E k \in DOMAIN hwid_logs : k < hreq[i].id /\ hwid_logs[k].hwid = hreq[i].hwid

JoinedRows(h) == {row \in hwid_joined : row.hwid = h}
MarkDone(i) == hreq[i].op = "mark" /\ hreq[i].pc = "done"

\* C11: markJoined is idempotent: however many markJoined(h) calls ran, one
\* joined record for h is stored, every call returned that record, and its
\* created_at is the one the first call stored.
C11_MarkJoinedIdempotent ==
    /\ \A h \in Hwids : Cardinality(JoinedRows(h)) <= 1
    /\ \A i \in DOMAIN hreq :
          MarkDone(i) =>
              /\ Cardinality(JoinedRows(hreq[i].hwid)) = 1
              /\ \A row \in JoinedRows(hreq[i].hwid) : hreq[i].created_at = row.created_at

C11_Witness ==
    \E i, j \in DOMAIN hreq :
        /\ i < j /\ MarkDone(i) /\ MarkDone(j) /\ hreq[i].hwid = hreq[j].hwid
        /\ hreq[j].afterMarkCompleted
        /\ hreq[j].created_at = hreq[i].created_at /\ clock >= 2

(***************************************************************************)
(* The admin router: authenticateApiKey in front of every route, the key   *)
(* routes over api_keys and the ban routes over hwid_bans.                 *)
(***************************************************************************)

RawKeys == {"k1", "k2", "k3"}

\* hashApiKey: sha256 of the raw key, as a tagged value (distinct keys give
\* distinct digests)
hashApiKey(key) == <<"sha256", key>>

\* Authorization headers: none, one of another scheme, "Bearer " + key
NoHeader == <<>>
BasicHeader == <<"Basic", "k1">>
BearerHeader(key) == <<"Bearer", key>>
Headers == {NoHeader, BasicHeader} \cup {BearerHeader(k) : k \in RawKeys}

\* a row of api_keys; last_used is the statement that set the timestamp last
\* ("created": the column default, "validated": validateApiKey)
KeyRow(key, active, used) ==
    [key_hash |-> hashApiKey(key), is_active |-> active, last_used |-> used]

\* SELECT * FROM api_keys WHERE key_hash = ? AND is_active = 1
ActiveKeyRows(key) ==
    {row \in api_keys : row.key_hash = hashApiKey(key) /\ row.is_active}

\* the state of the presented key in api_keys (kept with the request)
KeyState(header) ==
    IF header = NoHeader \/ header[1] # "Bearer" THEN "none"
    ELSE IF ActiveKeyRows(header[2]) # {} THEN "active"
    ELSE IF \E row \in api_keys : row.key_hash = hashApiKey(header[2]) THEN "inactive"
    ELSE "unknown"

Passed == [status |-> 0, error |-> "", message |-> ""]
Unauthorized(msg) == [status |-> 401, error |-> "Unauthorized", message |-> msg]

authenticateApiKey_TellInactive(header) ==
    IF header = NoHeader \/ header[1] # "Bearer"
    THEN Unauthorized("API key required. Use Authorization: Bearer YOUR_API_KEY")
    ELSE IF ActiveKeyRows(header[2]) # {} THEN Passed
    ELSE IF KeyState(header) = "inactive" THEN Unauthorized("API key has been deactivated")
    ELSE Unauthorized("Invalid or inactive API key")

\* the response of the middleware, Passed when it calls next()
authenticateApiKey(header) ==
    IF header = NoHeader \/ header[1] # "Bearer"
    THEN Unauthorized("API key required. Use Authorization: Bearer YOUR_API_KEY")
    ELSE IF ActiveKeyRows(header[2]) = {}
    THEN Unauthorized("Invalid or inactive API key")
    ELSE Passed

\* validateApiKey: UPDATE api_keys SET last_used = CURRENT_TIMESTAMP WHERE id = ?
\* with the id of the row the SELECT returned (the row of the key's hash,
\* whatever its is_active is by now)
TouchLastUsed(header) ==
    {IF row.key_hash = hashApiKey(header[2]) THEN [row EXCEPT !.last_used = "validated"]
     ELSE row : row \in api_keys}

NextCalled_Always(header) == TRUE

\* whether the middleware reaches next(), which runs the route's handler
NextCalled(header) == authenticateApiKey(header).status = 0

NoBan == [hwid |-> "", reason |-> "", created_at |-> -1]

\* the catch block of the middleware
AuthenticationFailed ==
    [status |-> 500, error |-> "Internal Server Error", message |-> "Authentication failed"]

IsBearer(header) == header # NoHeader /\ header[1] = "Bearer"

\* what authenticateApiKey answers before its first await: 401 without a
\* bearer key, 500 when getDatabase throws, Passed when it goes on to
\* validateApiKey
BeforeValidation(header) ==
    IF ~IsBearer(header) THEN authenticateApiKey(header)
    ELSE IF getDatabase # "handle" THEN AuthenticationFailed
    ELSE Passed

AdminRequestRecord(route, header, h, r, k) ==
    [route |-> route, header |-> header, hwid |-> h, reason |-> r, key |-> k,
     \* the state of the key as the SELECT of validateApiKey found it
     keyState |-> IF IsBearer(header) THEN "pending" ELSE "none",
     pc |-> IF BeforeValidation(header) = Passed THEN "validate" ELSE "done",
     status |-> BeforeValidation(header).status,
     error |-> BeforeValidation(header).error,
     message |-> BeforeValidation(header).message,
     ban |-> NoBan,
     rowId |-> 0,    \* the id of the row the handler's lookup returned
     wrote |-> 0]    \* the time of the statement the handler ran, 0 before it

\* a request to the admin router enters authenticateApiKey
AdminRequest(route, header, h, r, k) ==
    /\ Len(hreq) + Len(areq) < MaxRequests
    /\ areq' = Append(areq, AdminRequestRecord(route, header, h, r, k))
    /\ UNCHANGED <<api_keys, hwid_bans, alast, search, sqlite_sequence>>
    /\ UNCHANGED <<resolveVars, hwidVars, siteVars>>

\* validateApiKey: the SELECT runs; without a row the middleware answers 401
ValidateSelect(i) ==
    /\ areq[i].route # "optional" /\ areq[i].pc = "validate"
    /\ areq' = [areq EXCEPT
          ![i].keyState = KeyState(areq[i].header),
          ![i].pc = IF NextCalled(areq[i].header) THEN "touch" ELSE "done",
          ![i].status = authenticateApiKey(areq[i].header).status,
          ![i].error = authenticateApiKey(areq[i].header).error,
          ![i].message = authenticateApiKey(areq[i].header).message]
    /\ UNCHANGED <<api_keys, hwid_bans, alast, search, sqlite_sequence>>
    /\ UNCHANGED <<resolveVars, hwidVars, siteVars>>

\* validateApiKey: the UPDATE of last_used runs; then next()
ValidateTouch(i) ==
    /\ areq[i].route # "optional" /\ areq[i].pc = "touch"
    /\ api_keys' = TouchLastUsed(areq[i].header)
    /\ areq' = [areq EXCEPT ![i].pc = "handler"]
    /\ UNCHANGED <<hwid_bans, alast, search, sqlite_sequence>>
    /\ UNCHANGED <<resolveVars, hwidVars, siteVars>>

Finish(i, status, error, message) ==
    [areq EXCEPT ![i].pc = "done", ![i].status = status,
                 ![i].error = error, ![i].message = message]

(***************************************************************************)
(* Ban list: POST /hwids/bans, DELETE /hwids/bans/:hwid, isHwidBanned.     *)
(***************************************************************************)

\* req.body.reason: absent, or a string
ReasonInputs == {<<>>, <<"cheating">>}

\* String(reason || '')
ReasonOrEmpty(r) == IF r = <<>> THEN "" ELSE r[1]

isHwidBanned(h) == \E row \in hwid_bans : row.hwid = h

BanRows(h) == {row \in hwid_bans : row.hwid = h}

\* hwid_bans is keyed by hwid: a statement that would leave two rows of one
\* hwid fails with a constraint error
UniqueHwid(rows) == \A a, b \in rows : a.hwid = b.hwid => a = b

upsertHwidBan_PlainInsert(h, reason) ==
    hwid_bans \cup {[hwid |-> h, reason |-> reason, created_at |-> clock]}

\* the table after INSERT INTO hwid_bans (hwid, reason) VALUES (?, ?)
\* ON CONFLICT(hwid) DO UPDATE SET reason = excluded.reason, created_at = now
upsertHwidBan(h, reason) ==
    {row \in hwid_bans : row.hwid # h}
        \cup {[hwid |-> h, reason |-> reason, created_at |-> clock]}

deleteHwidBan_OnlyUnexplained(h) == {row \in hwid_bans : row.hwid # h \/ row.reason # ""}

\* the table after DELETE FROM hwid_bans WHERE hwid = ?
deleteHwidBan(h) == {row \in hwid_bans : row.hwid # h}

\* POST /hwids/bans up to the row written by createHwidBan
BanUpsert(i) ==
    /\ areq[i].route = "ban" /\ areq[i].pc = "handler"
    /\ IF areq[i].hwid = ""
       THEN /\ areq' = Finish(i, 400, "Bad Request", "hwid is required")
            /\ UNCHANGED <<hwid_bans, clock>>
       ELSE IF ~UniqueHwid(upsertHwidBan(areq[i].hwid, ReasonOrEmpty(areq[i].reason)))
       THEN /\ areq' = Finish(i, 500, "Internal Server Error", "Failed to create ban")
            /\ UNCHANGED <<hwid_bans, clock>>
       ELSE /\ hwid_bans' = upsertHwidBan(areq[i].hwid, ReasonOrEmpty(areq[i].reason))
            /\ clock' = clock + 1
            /\ areq' = [areq EXCEPT ![i].pc = "select", ![i].wrote = clock + 1]
    /\ UNCHANGED <<api_keys, alast, search, sqlite_sequence>>
    /\ UNCHANGED <<resolveVars, hwid_joined, hwid_logs, hreq, siteVars>>

\* createHwidBan reads the row back and the route answers 201 with it
BanSelect(i) ==
    /\ areq[i].route = "ban" /\ areq[i].pc = "select"
    /\ areq' = [Finish(i, 201, "", "HWID banned") EXCEPT
                  ![i].ban = IF BanRows(areq[i].hwid) = {} THEN NoBan
                             ELSE CHOOSE row \in BanRows(areq[i].hwid) : TRUE]
    /\ UNCHANGED <<api_keys, hwid_bans, alast, search, sqlite_sequence>>
    /\ UNCHANGED <<resolveVars, hwidVars, siteVars>>

\* DELETE /hwids/bans/:hwid
Unban(i) ==
    /\ areq[i].route = "unban" /\ areq[i].pc = "handler"
    /\ hwid_bans' = deleteHwidBan(areq[i].hwid)
    /\ clock' = clock + 1
    /\ areq' = [(IF hwid_bans' # hwid_bans
                 THEN Finish(i, 200, "", "Ban removed")
                 ELSE Finish(i, 404, "Not Found", "Ban not found"))
                EXCEPT ![i].wrote = clock + 1]
    /\ UNCHANGED <<api_keys, alast, search, sqlite_sequence>>
    /\ UNCHANGED <<resolveVars, hwid_joined, hwid_logs, hreq, siteVars>>

BanKey == "k1"

\* the ban list is empty and one API key exists
BanInit ==
    /\ ResolveIdle /\ HwidIdle /\ SiteIdle
    /\ api_keys = {KeyRow(BanKey, TRUE, "created")}
    /\ hwid_bans = {}
    /\ areq = <<>>
    /\ alast = NoAssetRequest
    /\ search = NoSearch
    /\ SequenceIdle

BanNext ==
    \/ \E h \in Hwids, r \in ReasonInputs :
          AdminRequest("ban", BearerHeader(BanKey), h, r, "")
    \/ AdminRequest("ban", BearerHeader(BanKey), "", <<>>, "")
    \/ \E h \in Hwids : AdminRequest("unban", BearerHeader(BanKey), h, <<>>, "")
    \/ \E i \in DOMAIN areq : ValidateSelect(i)
    \/ \E i \in DOMAIN areq : ValidateTouch(i)
    \/ \E i \in DOMAIN areq : BanUpsert(i)
    \/ \E i \in DOMAIN areq : BanSelect(i)
    \/ \E i \in DOMAIN areq : Unban(i)
    \/ \E h \in Hwids : MarkStart(h)
    \/ \E i \in DOMAIN hreq : MarkInsert(i)
    \/ \E i \in DOMAIN hreq : MarkSelect(i)

BanSpec == BanInit /\ [][BanNext]_vars

\* request i wrote to the ban list of h, and no request wrote to it later
LastBanWrite(i, h) ==
    /\ areq[i].hwid = h /\ areq[i].wrote > 0
    /\ \A j \in DOMAIN areq : areq[j].hwid = h => areq[j].wrote <= areq[i].wrote

\* C12: after any sequence of ban(h, r) and unban(h), hwid_bans holds at most
\* one row per hwid; if the last operation on h was ban(h, r) the row of h has
\* reason r, and if it was unban(h) there is no row and isBanned(h) is false.
C12_LastBanOperationWins ==
    \A h \in Hwids :
        /\ Cardinality(BanRows(h)) <= 1
        /\ \A i \in DOMAIN areq :
              LastBanWrite(i, h) =>
                  IF areq[i].route = "ban"
                  THEN /\ Cardinality(BanRows(h)) = 1
                       /\ \A row \in BanRows(h) :
                             row.reason = (IF areq[i].reason = <<>> THEN ""
                                           ELSE areq[i].reason[1])
                  ELSE BanRows(h) = {} /\ ~isHwidBanned(h)

C12_Witness ==
    \E h \in Hwids :
        /\ Len(areq) = 3
        /\ \A i \in 1..3 : areq[i].hwid = h /\ areq[i].pc = "done"
        /\ 0 < areq[1].wrote /\ areq[1].wrote < areq[2].wrote /\ areq[2].wrote < areq[3].wrote
        /\ areq[1].route = "ban" /\ areq[1].reason = <<"cheating">>
        /\ areq[2].route = "unban" /\ areq[2].status = 200
        /\ areq[3].route = "ban" /\ areq[3].reason = <<>>
        /\ areq[3].ban.reason = ""
        /\ \E row \in hwid_bans : row.hwid = h /\ row.reason = ""

BanDone(i) == areq[i].route = "ban" /\ areq[i].pc = "done"

\* C13: under any interleaving of concurrent ban(h, .) requests and of
\* concurrent markJoined(h) requests for one hwid, no request ends in an
\* error, and neither hwid_bans nor hwid_joined ever holds two rows of h.
C13_ConcurrentWritesAreSafe ==
    /\ \A h \in Hwids : Cardinality(BanRows(h)) <= 1 /\ Cardinality(JoinedRows(h)) <= 1
    /\ \A i \in DOMAIN areq :
          (areq[i].route = "ban" /\ areq[i].hwid \in Hwids) =>
              /\ areq[i].status \in {0, 201}
              /\ BanDone(i) => areq[i].status = 201
              /\ (BanDone(i) /\ \A j \in DOMAIN areq : areq[j].route # "unban")
                    => areq[i].ban.hwid = areq[i].hwid
    /\ \A i \in DOMAIN hreq : MarkDone(i) => JoinedRows(hreq[i].hwid) # {}

C13_Witness ==
    \E i, j \in DOMAIN areq : \E m \in DOMAIN hreq :
        /\ BanDone(i) /\ BanDone(j) /\ MarkDone(m)
        /\ areq[i].hwid = areq[j].hwid /\ hreq[m].hwid = areq[i].hwid
        /\ areq[i].wrote < areq[j].wrote
        /\ areq[i].status = 201 /\ areq[j].status = 201
        /\ areq[i].ban.reason = ReasonOrEmpty(areq[j].reason)
        /\ areq[i].ban.reason # ReasonOrEmpty(areq[i].reason)

(***************************************************************************)
(* Key routes: POST /keys and DELETE /keys/:keyHash.                       *)
(***************************************************************************)

createApiKey_Replace(key) ==
    {row \in api_keys : row.key_hash # hashApiKey(key)} \cup {KeyRow(key, TRUE, "created")}

\* the table after INSERT INTO api_keys (key_hash, name) VALUES (?, ?);
\* is_active and last_used take their defaults
createApiKey(key) == api_keys \cup {KeyRow(key, TRUE, "created")}

\* key_hash TEXT UNIQUE NOT NULL
UniqueKeyHash(rows) == \A a, b \in rows : a.key_hash = b.key_hash => a = b

\* the INSERT of createApiKey fails on the UNIQUE constraint: a row with the
\* hash of the key is stored already
InsertViolatesUnique(key) ==
    \/ ~UniqueKeyHash(createApiKey(key))
    \/ KeyRow(key, TRUE, "created") \in api_keys

\* the table after UPDATE api_keys SET is_active = 0 WHERE key_hash = ?
deactivateApiKey(keyHash) ==
    {IF row.key_hash = keyHash THEN [row EXCEPT !.is_active = FALSE] ELSE row :
        row \in api_keys}

\* POST /keys
CreateKey(i) ==
    /\ areq[i].route = "createKey" /\ areq[i].pc = "handler"
    /\ IF areq[i].key = ""
       THEN /\ areq' = Finish(i, 400, "Bad Request", "API key is required")
            /\ UNCHANGED <<api_keys, clock>>
       ELSE IF InsertViolatesUnique(areq[i].key)
       THEN /\ areq' = [Finish(i, 500, "Internal Server Error", "Failed to create API key")
                          EXCEPT ![i].wrote = clock + 1]
            /\ clock' = clock + 1
            /\ UNCHANGED api_keys
       ELSE /\ api_keys' = createApiKey(areq[i].key)
            /\ clock' = clock + 1
            /\ areq' = [Finish(i, 201, "", "API key created successfully")
                          EXCEPT ![i].wrote = clock + 1]
    /\ UNCHANGED <<hwid_bans, alast, search, sqlite_sequence>>
    /\ UNCHANGED <<resolveVars, hwid_joined, hwid_logs, hreq, siteVars>>

\* DELETE /keys/:keyHash
DeactivateKey(i) ==
    /\ areq[i].route = "deactivateKey" /\ areq[i].pc = "handler"
    /\ api_keys' = deactivateApiKey(hashApiKey(areq[i].key))
    /\ areq' = [(IF \E row \in api_keys : row.key_hash = hashApiKey(areq[i].key)
                 THEN Finish(i, 200, "", "API key deactivated successfully")
                 ELSE Finish(i, 404, "Not Found", "API key not found"))
                EXCEPT ![i].wrote = clock + 1]
    /\ clock' = clock + 1
    /\ UNCHANGED <<hwid_bans, alast, search, sqlite_sequence>>
    /\ UNCHANGED <<resolveVars, hwid_joined, hwid_logs, hreq, siteVars>>

DeactivateKeyInputs == {"k2"}
AuthBanInputs == {"h1"}

\* the operator's key exists; a second key may have been created before
AuthInit ==
    /\ ResolveIdle /\ HwidIdle /\ SiteIdle
    /\ api_keys \in {{KeyRow("k1", TRUE, "created")},
                     {KeyRow("k1", TRUE, "created"), KeyRow("k2", TRUE, "created")}}
    /\ hwid_bans = {}
    /\ areq = <<>>
    /\ alast = NoAssetRequest
    /\ search = NoSearch
    /\ SequenceIdle

\* every header on DELETE /keys/:keyHash, the bearer headers on the other routes
BearerHeaders == {BearerHeader(k) : k \in RawKeys}
BanHeaders == {BearerHeader("k1"), BearerHeader("k2")}

AuthNext ==
    \/ \E hd \in BearerHeaders : AdminRequest("createKey", hd, "", <<>>, "k2")
    \/ AdminRequest("createKey", BearerHeader("k1"), "", <<>>, "")
    \/ \E hd \in Headers, k \in DeactivateKeyInputs :
          AdminRequest("deactivateKey", hd, "", <<>>, k)
    \/ \E hd \in BanHeaders, h \in AuthBanInputs :
          AdminRequest("ban", hd, h, <<"cheating">>, "")
    \/ \E i \in DOMAIN areq : ValidateSelect(i)
    \/ \E i \in DOMAIN areq : ValidateTouch(i)
    \/ \E i \in DOMAIN areq : CreateKey(i)
    \/ \E i \in DOMAIN areq : DeactivateKey(i)
    \/ \E i \in DOMAIN areq : BanUpsert(i)
    \/ \E i \in DOMAIN areq : BanSelect(i)

AuthSpec == AuthInit /\ [][AuthNext]_vars

AuthResponse(i) ==
    [status |-> areq[i].status, error |-> areq[i].error, message |-> areq[i].message]

\* C15: a request with a deactivated key and a request with a key that was
\* never created get the same 401 response, same error and same message, on
\* every admin route.
C15_InactiveLikeUnknown ==
    \A i, j \in DOMAIN areq :
        (areq[i].keyState = "inactive" /\ areq[j].keyState = "unknown") =>
            /\ areq[i].status = 401 /\ areq[i].pc = "done"
            /\ AuthResponse(i) = AuthResponse(j)

C15_Witness ==
    \E i, j \in DOMAIN areq :
        /\ areq[i].keyState = "inactive" /\ areq[j].keyState = "unknown"
        /\ areq[i].route = areq[j].route
        /\ areq[i].status = 401 /\ areq[j].message = "Invalid or inactive API key"

InactiveHashes(rows) == {row.key_hash : row \in {r \in rows : ~r.is_active}}
ActiveHashes(rows) == {row.key_hash : row \in {r \in rows : r.is_active}}

\* C16: deactivation is irreversible: no step of any route, creating the same
\* raw key again included, makes a deactivated key active again, and every
\* request that presents a deactivated key is refused.
C16_DeactivationIrreversible ==
    [][/\ InactiveHashes(api_keys) \subseteq InactiveHashes(api_keys')
       /\ InactiveHashes(api_keys') \cap ActiveHashes(api_keys') = {}
       /\ \A i \in DOMAIN areq :
             (/\ areq[i].pc = "validate" /\ areq'[i].pc # "validate"
              /\ hashApiKey(areq[i].header[2]) \in InactiveHashes(api_keys))
                 => areq'[i].status = 401 /\ areq'[i].pc = "done"]_vars

C16_Witness ==
    \E d, c, u \in DOMAIN areq :
        /\ areq[d].route = "deactivateKey" /\ areq[d].status = 200
        /\ areq[c].route = "createKey" /\ areq[c].key = areq[d].key
        /\ areq[c].status = 500 /\ areq[c].keyState = "active"
        /\ 0 < areq[d].wrote /\ areq[d].wrote < areq[c].wrote /\ c < u
        /\ areq[u].header = BearerHeader(areq[d].key)
        /\ areq[u].keyState = "inactive" /\ areq[u].status = 401
        /\ hashApiKey(areq[d].key) \in InactiveHashes(api_keys)

Records == <<api_keys, hwid_bans, hwid_joined, hwid_logs, launcher_assets>>

\* C17: a handler of the admin router runs only for a request whose bearer
\* key was validated as an existing active key; a request with a missing,
\* malformed, unknown or deactivated credential is answered 401 and leaves
\* every stored record as it was.
C17_HandlersBehindValidation ==
    [][/\ \A i \in DOMAIN areq' :
             areq'[i].keyState \notin {"pending", "active"} =>
                 areq'[i].status = 401 /\ areq'[i].pc = "done"
       /\ \A i \in DOMAIN areq :
             areq'[i] # areq[i] => areq[i].keyState \in {"pending", "active"}
       /\ \A i \in DOMAIN areq :
             (areq[i].pc = "handler" \/ areq'[i].pc = "handler") =>
                 areq'[i].keyState = "active"
       /\ \A i \in DOMAIN areq' :
             (/\ areq'[i].keyState \notin {"pending", "active"}
              /\ (i \notin DOMAIN areq \/ areq'[i] # areq[i]))
                 => Records' = Records]_vars

C17_Witness ==
    \E i, j, k \in DOMAIN areq :
        /\ areq[i].keyState = "none" /\ areq[i].status = 401
        /\ areq[j].keyState \in {"unknown", "inactive"} /\ areq[j].status = 401
        /\ areq[k].keyState = "active" /\ areq[k].pc = "done" /\ areq[k].status \in {200, 201}
        /\ areq[i].route = areq[k].route /\ areq[j].route = areq[k].route

(***************************************************************************)
(* HWID log search: GET /hwids over searchHwidLogs.                        *)
(***************************************************************************)

MaxPageSize == 200
DefaultPageSize == 50

Min(a, b) == IF a < b THEN a ELSE b
Max(a, b) == IF a > b THEN a ELSE b

\* req.query.limit and req.query.offset: absent (<<>>) or a decimal integer
LimitInputs == {<<>>} \cup {<<n>> : n \in {-5, 0, 1, 50, 199, 200, 201, 300}}
OffsetInputs == {<<>>} \cup {<<n>> : n \in {-3, 0, 1, 150, 200, 260}}

\* req.query.limit ? parseInt(req.query.limit, 10) : 50
RouteLimit(q) == IF q = <<>> THEN DefaultPageSize ELSE q[1]

\* req.query.offset ? parseInt(req.query.offset, 10) : 0
RouteOffset(q) == IF q = <<>> THEN 0 ELSE q[1]

EffectiveLimit_NoCap(limit) == Max(limit, 1)

\* Math.min(Math.max(filters.limit ?? 50, 1), 200)
EffectiveLimit(limit) == Min(Max(limit, 1), MaxPageSize)

\* Math.max(filters.offset ?? 0, 0)
EffectiveOffset(offset) == Max(offset, 0)

\* the characters of the text values stored in hwid_logs
Chars(s) ==
    CASE s = "h1" -> <<"h", "1">>
      [] s = "h2" -> <<"h", "2">>
      [] s = "u1" -> <<"u", "1">>
      [] s = "u2" -> <<"u", "2">>
      [] s = "Steve" -> <<"S", "t", "e", "v", "e">>
      [] s = "Alex" -> <<"A", "l", "e", "x">>
      [] s = "10.0.0.1" -> <<"1", "0", ".", "0", ".", "0", ".", "1">>
      [] s = "10.0.0.2" -> <<"1", "0", ".", "0", ".", "0", ".", "2">>

\* LIKE folds the case of ASCII letters
Lower(c) ==
    CASE c = "A" -> "a" [] c = "H" -> "h" [] c = "S" -> "s" [] c = "U" -> "u"
      [] OTHER -> c

\* SQLite's text LIKE pattern: % matches any run of characters, _ exactly one
\* character, any other character itself without regard to ASCII case
RECURSIVE Like(_, _)
Like(text, pattern) ==
    IF pattern = <<>> THEN text = <<>>
    ELSE IF Head(pattern) = "%"
         THEN Like(text, Tail(pattern)) \/ (text # <<>> /\ Like(Tail(text), pattern))
    ELSE IF text = <<>> THEN FALSE
    ELSE IF Head(pattern) = "_" THEN Like(Tail(text), Tail(pattern))
    ELSE Lower(Head(pattern)) = Lower(Head(text)) /\ Like(Tail(text), Tail(pattern))

\* column LIKE `%${filter}%`; a NULL column matches no pattern
LikeAround(value, filter) ==
    value # <<>> /\ Like(Chars(value[1]), <<"%">> \o filter \o <<"%">>)

\* the query of GET /hwids: text filters as their characters, <<>> for a
\* filter that is absent or empty; has_joined_with_this_hwid absent, or
\* 'true' / '1' for true and any other string for false; dates as instants
NoFilters ==
    [hwid |-> <<>>, launcher_install_uuid |-> <<>>, player_name |-> <<>>,
     account_type |-> <<>>, ip_address |-> <<>>, has_joined |-> "absent",
     from_date |-> <<>>, to_date |-> <<>>]

FilterInputs ==
    {NoFilters}
    \cup {[NoFilters EXCEPT !.hwid = hw] :
            hw \in {<<"h", "1">>, <<"h">>, <<"H", "1">>, <<"1">>, <<"_", "1">>,
                    <<"%">>, <<"1", "h">>, <<"h", "_", "_">>}}
    \cup {[NoFilters EXCEPT !.has_joined = j] : j \in {"true", "1", "false"}}
    \cup {[NoFilters EXCEPT !.hwid = <<"h", "1">>, !.has_joined = j] : j \in {"true", "false"}}
    \cup {[NoFilters EXCEPT !.launcher_install_uuid = u] : u \in {<<"U", "2">>, <<"u">>}}
    \cup {[NoFilters EXCEPT !.player_name = p] : p \in {<<"s", "t">>, <<"e">>, <<"x", "e">>}}
    \cup {[NoFilters EXCEPT !.account_type = <<a>>] : a \in {"microsoft", "Microsoft", "offline"}}
    \cup {[NoFilters EXCEPT !.ip_address = ip] : ip \in {<<"0", ".", "2">>, <<"1", "0">>}}
    \cup {[NoFilters EXCEPT !.from_date = <<2>>], [NoFilters EXCEPT !.to_date = <<2>>],
          [NoFilters EXCEPT !.from_date = <<2>>, !.to_date = <<2>>],
          [NoFilters EXCEPT !.from_date = <<3>>, !.to_date = <<1>>],
          [NoFilters EXCEPT !.account_type = <<"microsoft">>, !.to_date = <<2>>,
                            !.player_name = <<"a">>]}

\* the filters searched with every limit and offset
PagedFilters ==
    {NoFilters, [NoFilters EXCEPT !.hwid = <<"h">>, !.has_joined = "false"]}

\* the WHERE clause searchHwidLogs builds from the filters
Matches(row, filters) ==
    /\ filters.hwid # <<>> => LikeAround(<<row.hwid>>, filters.hwid)
    /\ filters.launcher_install_uuid # <<>> =>
          LikeAround(<<row.launcher_install_uuid>>, filters.launcher_install_uuid)
    /\ filters.player_name # <<>> => LikeAround(<<row.player_name>>, filters.player_name)
    /\ filters.account_type # <<>> => row.account_type = filters.account_type[1]
    /\ filters.ip_address # <<>> => LikeAround(row.ip_address, filters.ip_address)
    /\ filters.has_joined # "absent" =>
          row.has_joined_with_this_hwid = (filters.has_joined \in {"true", "1"})
    /\ filters.from_date # <<>> => row.login_date >= filters.from_date[1]
    /\ filters.to_date # <<>> => row.login_date <= filters.to_date[1]

Reverse(seq) == [k \in 1..Len(seq) |-> seq[Len(seq) + 1 - k]]

\* ORDER BY login_date DESC, id DESC over rows held in id order: the rows of
\* the latest login_date, highest id first, then those of the dates before it
RECURSIVE OrderByLoginDateDesc(_, _)
OrderByLoginDateDesc(rows, dates) ==
    IF dates = {} THEN <<>>
    ELSE LET latest == CHOOSE d \in dates : \A e \in dates : e <= d
         IN Reverse(SelectSeq(rows, LAMBDA row : row.login_date = latest))
              \o OrderByLoginDateDesc(rows, dates \ {latest})

\* SELECT COUNT(*) as count FROM hwid_logs WHERE ...
CountLogs(filters) ==
    Len(SelectSeq(hwid_logs, LAMBDA row : Matches(row, filters)))

\* SELECT * FROM hwid_logs WHERE ... ORDER BY login_date DESC, id DESC
\* LIMIT ? OFFSET ?
PageOfLogs(filters, limit, offset) ==
    LET matching == SelectSeq(hwid_logs, LAMBDA row : Matches(row, filters))
        ordered == OrderByLoginDateDesc(matching,
                      {matching[k].login_date : k \in DOMAIN matching})
    IN SubSeq(ordered, offset + 1, Min(offset + limit, Len(ordered)))

\* GET /hwids arrives at the admin router and enters authenticateApiKey
SearchStart(header, filters, limit, offset) ==
    /\ areq = <<>> /\ search.pc = "idle"
    /\ areq' = <<AdminRequestRecord("search", header, "", <<>>, "")>>
    /\ search' = [NoSearch EXCEPT !.pc = "query", !.filters = filters,
                                  !.limit = limit, !.offset = offset]
    /\ UNCHANGED <<api_keys, hwid_bans, alast, sqlite_sequence>>
    /\ UNCHANGED <<resolveVars, hwidVars, siteVars>>

\* searchHwidLogs: the COUNT runs
SearchCount(i) ==
    /\ areq[i].route = "search" /\ areq[i].pc = "handler"
    /\ search.pc = "query"
    /\ search' = [search EXCEPT !.pc = "page", !.total = CountLogs(search.filters)]
    /\ UNCHANGED <<api_keys, hwid_bans, areq, alast, sqlite_sequence>>
    /\ UNCHANGED <<resolveVars, hwidVars, siteVars>>

\* searchHwidLogs: the page is selected, the route responds {total, logs}
SearchPage(i) ==
    /\ areq[i].route = "search" /\ areq[i].pc = "handler"
    /\ search.pc = "page"
    /\ search' = [search EXCEPT
                    !.pc = "done",
                    !.logs = PageOfLogs(search.filters,
                                        EffectiveLimit(RouteLimit(search.limit)),
                                        EffectiveOffset(RouteOffset(search.offset)))]
    /\ areq' = Finish(i, 200, "", "")
    /\ UNCHANGED <<api_keys, hwid_bans, alast, sqlite_sequence>>
    /\ UNCHANGED <<resolveVars, hwidVars, siteVars>>

\* numbers of rows logged before the search
TableSizes == {0, 3, 200, 201, 450}

\* the login dates of successive submissions: not in the order of the ids
LoginDates == <<3, 1, 2>>

\* hwid_logs after n POST /hwid requests: ids 1..n in insertion order
LoggedRows(n) ==
    [k \in 1..n |->
        [id |-> k,
         hwid |-> IF k % 2 = 1 THEN "h1" ELSE "h2",
         launcher_install_uuid |-> IF k % 7 = 0 THEN "u2" ELSE "u1",
         player_name |-> IF k % 5 = 0 THEN "Alex" ELSE "Steve",
         account_type |-> IF k % 4 = 0 THEN "offline" ELSE "microsoft",
         login_date |-> LoginDates[((k - 1) % 3) + 1],
         ip_address |-> IF k % 11 = 0 THEN <<>>
                        ELSE IF k % 2 = 0 THEN <<"10.0.0.2">> ELSE <<"10.0.0.1">>,
         has_joined_with_this_hwid |-> (k % 3 = 0),
         created_at |-> k - 1]]

SearchInit ==
    /\ ResolveIdle /\ SiteIdle
    /\ \E n \in TableSizes : hwid_logs = LoggedRows(n) /\ clock = n
    /\ hwid_joined = {}
    /\ hreq = <<>>
    /\ api_keys = {KeyRow(BanKey, TRUE, "created")}
    /\ hwid_bans = {}
    /\ areq = <<>>
    /\ alast = NoAssetRequest
    /\ search = NoSearch
    /\ SequenceIdle

SearchNext ==
    \/ \E filters \in PagedFilters, limit \in LimitInputs, offset \in OffsetInputs :
          SearchStart(BearerHeader(BanKey), filters, limit, offset)
    \/ \E filters \in FilterInputs, limit \in {<<>>, <<300>>}, offset \in {<<>>, <<1>>} :
          SearchStart(BearerHeader(BanKey), filters, limit, offset)
    \/ \E hd \in {NoHeader, BearerHeader("k2")} : SearchStart(hd, NoFilters, <<>>, <<>>)
    \/ \E i \in DOMAIN areq : ValidateSelect(i)
    \/ \E i \in DOMAIN areq : ValidateTouch(i)
    \/ \E i \in DOMAIN areq : SearchCount(i)
    \/ \E i \in DOMAIN areq : SearchPage(i)

SearchSpec == SearchInit /\ [][SearchNext]_vars

\* the positions of hwid_logs that the search's filters select
MatchingIds == {k \in DOMAIN hwid_logs : Matches(hwid_logs[k], search.filters)}

\* row a comes before row b in the order of the listing: later login date
\* first, and of two rows with the same login date the higher id first
ListedBefore(a, b) ==
    \/ a.login_date > b.login_date
    \/ a.login_date = b.login_date /\ a.id > b.id

\* the number of matching rows listed before a row
Rank(row) == Cardinality({m \in MatchingIds : ListedBefore(hwid_logs[m], row)})

\* page size and offset as the claim states them
PageSize == IF search.limit = <<>> THEN 50
            ELSE IF search.limit[1] < 1 THEN 1
            ELSE IF search.limit[1] > 200 THEN 200 ELSE search.limit[1]
PageOffset == IF search.offset = <<>> \/ search.offset[1] < 0 THEN 0 ELSE search.offset[1]

\* C14: for every integer limit and offset the page size is
\* min(max(limit, 1), 200) and the offset is max(offset, 0), 50 and 0 when
\* absent; logs never holds more than 200 rows; total is the count of all
\* matching rows, whatever limit and offset are.  The page is the run of
\* PageSize matching rows that follows the first PageOffset of the listing.
C14_PageClamped ==
    search.pc = "done" =>
        /\ Len(search.logs) <= 200
        /\ search.total = Cardinality(MatchingIds)
        /\ Len(search.logs) =
              IF search.total - PageOffset < 0 THEN 0
              ELSE IF search.total - PageOffset < PageSize
                   THEN search.total - PageOffset
                   ELSE PageSize
        /\ \A k \in DOMAIN search.logs :
              /\ search.logs[k].id \in MatchingIds
              /\ hwid_logs[search.logs[k].id] = search.logs[k]
              /\ k > 1 => ListedBefore(search.logs[k - 1], search.logs[k])
        /\ search.logs # <<>> =>
              /\ Rank(search.logs[1]) = PageOffset
              /\ Rank(search.logs[Len(search.logs)]) = PageOffset + Len(search.logs) - 1

C14_Witness ==
    /\ search.pc = "done"
    /\ search.limit = <<300>> /\ search.offset = <<-3>>
    /\ search.filters = NoFilters
    /\ search.total = 450 /\ Len(search.logs) = 200
    /\ search.logs[1].id = 448 /\ search.logs[2].id = 445

(***************************************************************************)
(* Launcher assets: POST /assets and PUT /assets/:clientId.                *)
(***************************************************************************)

\* version strings as a client may send them: two versions, "v1" with leading
\* white space, and a blank string
Tokens == {"v1", "v2", " v1", " "}

\* String.prototype.trim
Trim(t) == IF t = " v1" THEN "v1" ELSE IF t = " " THEN "" ELSE t

\* lists a client may send as an array or as the JSON text of an array
ItemLists == {<<>>, <<"v1">>, <<"v1", "v1">>, <<"v1", "v2">>, <<"v2", " v1">>, <<" ">>}

\* the JSON text of a list, where the text itself is used as a string
JSONstringifyList(items) ==
    CASE items = <<>> -> "[]"
      [] items = <<"v1">> -> "[\"v1\"]"
      [] items = <<"v1", "v1">> -> "[\"v1\",\"v1\"]"
      [] items = <<"v1", "v2">> -> "[\"v1\",\"v2\"]"
      [] items = <<"v2", " v1">> -> "[\"v2\",\" v1\"]"
      [] items = <<" ">> -> "[\" \"]"

\* a body field: absent, a plain string (items holds it), an array, or a
\* string holding the JSON text of an array
Absent == [shape |-> "absent", items |-> <<>>]
VersionInputs ==
    {Absent} \cup {[shape |-> "string", items |-> <<t>>] : t \in {"v1", " v1", " "}}
             \cup [shape : {"array", "json"}, items : ItemLists]
VersionsInputs ==
    {Absent, [shape |-> "string", items |-> <<"v1">>]}
        \cup [shape : {"array", "json"}, items : ItemLists]

\* bodies with version information: either field alone in every shape, and
\* both fields together in some
VersionPairs ==
    {<<v, Absent>> : v \in VersionInputs} \cup {<<Absent, vs>> : vs \in VersionsInputs}
        \cup ({[shape |-> "string", items |-> <<"v1">>],
               [shape |-> "array", items |-> <<"v1", "v2">>],
               [shape |-> "json", items |-> <<"v2", " v1">>]}
              \X {[shape |-> "array", items |-> <<"v2", " v1">>],
                  [shape |-> "json", items |-> <<"v1", "v1">>],
                  [shape |-> "string", items |-> <<"v1">>]})

\* the field as a string: the plain string, or the JSON text
TextOf(in) == IF in.shape = "json" THEN JSONstringifyList(in.items) ELSE in.items[1]

RECURSIVE FilterTrim(_)
\* arr.filter(v => typeof v === 'string' && v.trim()).map(v => v.trim())
FilterTrim(items) ==
    IF items = <<>> THEN <<>>
    ELSE IF Trim(Head(items)) = "" THEN FilterTrim(Tail(items))
    ELSE <<Trim(Head(items))>> \o FilterTrim(Tail(items))

RECURSIVE Dedupe(_)
\* Array.from(new Set(arr)): first occurrences, in order
Dedupe(items) ==
    IF items = <<>> THEN <<>>
    ELSE LET front == Dedupe(SubSeq(items, 1, Len(items) - 1))
             last == items[Len(items)]
         IN IF \E k \in DOMAIN front : front[k] = last THEN front
            ELSE Append(front, last)

\* POST /assets: what `versions` adds to versionsArray
CreateVersionsPart(vs) ==
    IF vs.shape = "array" THEN FilterTrim(vs.items)
    ELSE IF vs.shape = "json" THEN vs.items
    ELSE <<>>

\* POST /assets: versionsArray after the merge and the de-duplication
CreateVersionsArray(v, vs) ==
    Dedupe((IF v.shape = "array" THEN FilterTrim(v.items)
            ELSE IF v.shape \in {"string", "json"} /\ Trim(TextOf(v)) # ""
                 THEN <<Trim(TextOf(v))>>
            ELSE <<>>) \o CreateVersionsPart(vs))

NotSet == [set |-> FALSE, list |-> <<>>]
SetTo(arr) == IF arr # <<>> THEN [set |-> TRUE, list |-> arr] ELSE NotSet

\* PUT /assets/:clientId: the list that updates.version / updates.versions
\* are set from, or NotSet when both keys are deleted or absent
UpdateVersions(v, vs) ==
    IF v.shape # "absent"
    THEN SetTo(Dedupe((IF v.shape = "array" THEN FilterTrim(v.items)
                       ELSE IF v.shape = "json" THEN v.items
                       ELSE IF Trim(TextOf(v)) # "" THEN <<Trim(TextOf(v))>>
                       ELSE <<>>) \o CreateVersionsPart(vs)))
    ELSE IF vs.shape = "array" THEN SetTo(FilterTrim(vs.items))
    ELSE IF vs.shape = "json" THEN SetTo(vs.items)
    ELSE NotSet

\* body.version_configs of an update: absent, a string JSON.parse rejects, or
\* the JSON text of an object
VcInputs == {"absent", "invalid", "json"}
SentVersionConfigs == JsonText({FullEntry("v1")})

\* body.base_url of an update: absent or a new URL
MovedUrl == <<"moved", "base_url">>
BaseUrlInputs == {<<>>, MovedUrl}

NullVersions == [kind |-> "null", val |-> <<>>]

\* the keys left in `updates` when updateLauncherAsset builds its SET list
UpdateKeys(v, vs, vc, b) ==
    (IF UpdateVersions(v, vs).set THEN {"version", "versions"} ELSE {})
        \cup (IF vc = "json" THEN {"version_configs"} ELSE {})
        \cup (IF b # <<>> THEN {"base_url"} ELSE {})

\* updateLauncherAsset: result.changes > 0, true when a row has the id; with
\* no key "SET , updated_at = ..." is no statement and the call throws, which
\* the route answers like a false result
updateLauncherAsset(id, keys) ==
    keys # {} /\ \E row \in launcher_assets : row.id = id

\* deleteLauncherAsset: result.changes > 0
deleteLauncherAsset(id) == \E row \in launcher_assets : row.id = id

\* the row after UPDATE launcher_assets SET ... WHERE id = ?
UpdatedRow(row, v, vs, vc, b) ==
    [row EXCEPT
        !.version = IF UpdateVersions(v, vs).set THEN Head(UpdateVersions(v, vs).list) ELSE @,
        !.versions = IF UpdateVersions(v, vs).set THEN JsonText(UpdateVersions(v, vs).list) ELSE @,
        !.version_configs = IF vc = "json" THEN SentVersionConfigs ELSE @,
        !.base_url = IF b # <<>> THEN b ELSE @]

\* POST /assets: defaultVersion
DefaultVersion(v, vs) ==
    IF CreateVersionsArray(v, vs) # <<>> THEN Head(CreateVersionsArray(v, vs))
    ELSE IF v.shape \in {"string", "json"} THEN TextOf(v) ELSE ""

\* body.version_configs of a create: absent, a string JSON.parse rejects, the
\* JSON text of an object, or an object
NoConfigs == [shape |-> "absent", val |-> {}]
InvalidConfigs == [shape |-> "invalid", val |-> {}]

\* POST /assets: versionConfigsObj, {} standing for null where the body has none
VersionConfigsObj(vc) == IF vc.shape \in {"json", "object"} THEN vc.val ELSE {}

\* versionConfigsObj[defaultVersion]
ConfigEntries(vc, ver) == {e \in VersionConfigsObj(vc) : e.ver = ver}

Backfill_Override(given, vc, ver, f) ==
    IF ConfigEntries(vc, ver) # {}
       /\ (CHOOSE e \in ConfigEntries(vc, ver) : TRUE)[f] # Empty
    THEN (CHOOSE e \in ConfigEntries(vc, ver) : TRUE)[f]
    ELSE given

\* if (!base_url) base_url = versionConfigsObj[defaultVersion].base_url, and
\* the same for the other two fields
Backfill(given, vc, ver, f) ==
    IF given = Empty /\ ConfigEntries(vc, ver) # {}
    THEN (CHOOSE e \in ConfigEntries(vc, ver) : TRUE)[f]
    ELSE given

\* the three URLs after the backfill
CreateUrls(v, vs, u, vc) ==
    [f \in UrlFields |-> Backfill(u[f], vc, DefaultVersion(v, vs), f)]

\* the row INSERTed by createLauncherAsset
CreatedRow(v, vs, u, vc) ==
    [id |-> sqlite_sequence.launcher_assets + 1,
     client_id |-> ClientId,
     version |-> DefaultVersion(v, vs),
     versions |-> IF CreateVersionsArray(v, vs) # <<>>
                  THEN JsonText(CreateVersionsArray(v, vs)) ELSE NullVersions,
     base_url |-> CreateUrls(v, vs, u, vc).base_url,
     mods_manifest_url |-> CreateUrls(v, vs, u, vc).mods_manifest_url,
     rp_manifest_url |-> CreateUrls(v, vs, u, vc).rp_manifest_url,
     version_configs |-> IF vc.shape \in {"json", "object"} THEN JsonText(vc.val)
                         ELSE NullText,
     social_media |-> JsonText({})]

\* a body with the three URLs at top level
GivenUrls == [f \in UrlFields |-> DefaultUrl(f)]

AssetRequest(op, status, v, vs, vc, b) ==
    [op |-> op, status |-> status, version |-> v, versions |-> vs,
     version_configs |-> vc, base_url |-> b,
     urls |-> NoTriple, configs |-> NoConfigs]

CreateRequest(status, v, vs, u, vc) ==
    [AssetRequest("create", status, v, vs, "absent", <<>>) EXCEPT
        !.urls = u, !.configs = vc]

\* a request arrives while at most one other request is in flight
AtMostOneInFlight == Len(areq) <= 1

\* launcher_assets rows AUTOINCREMENT numbers in one run
MaxAssets == 3

\* a request to an asset route enters authenticateApiKey with the operator's
\* key; its body is read where the handler first uses it
AssetArrives(route) ==
    /\ AtMostOneInFlight
    /\ route = "createAsset" =>
          sqlite_sequence.launcher_assets
             + Cardinality({i \in DOMAIN areq : areq[i].route = "createAsset"}) < MaxAssets
    /\ AdminRequest(route, BearerHeader(BanKey), "", <<>>, "")

\* the response is sent: the request leaves the router
Leave(i) == [k \in 1..(Len(areq) - 1) |-> IF k < i THEN areq[k] ELSE areq[k + 1]]

\* POST /assets: the checks of the body, then createLauncherAsset
CreateAsset(i, v, vs, u, vc) ==
    /\ areq[i].route = "createAsset" /\ areq[i].pc = "handler"
    /\ IF v.shape = "absent"
       THEN /\ alast' = CreateRequest(400, v, vs, u, vc)
            /\ UNCHANGED <<launcher_assets, sqlite_sequence>>
       ELSE IF \E f \in UrlFields : CreateUrls(v, vs, u, vc)[f] = Empty
       THEN /\ alast' = CreateRequest(400, v, vs, u, vc)
            /\ UNCHANGED <<launcher_assets, sqlite_sequence>>
       ELSE IF getLauncherAssetByClientId(ClientId) # {}     \* client_id is UNIQUE
       THEN /\ alast' = CreateRequest(500, v, vs, u, vc)
            /\ UNCHANGED <<launcher_assets, sqlite_sequence>>
       ELSE /\ alast' = CreateRequest(201, v, vs, u, vc)
            /\ launcher_assets' = launcher_assets \cup {CreatedRow(v, vs, u, vc)}
            /\ sqlite_sequence' = [sqlite_sequence EXCEPT !.launcher_assets = @ + 1]
    /\ areq' = Leave(i)
    /\ UNCHANGED <<api_keys, hwid_bans, search>>
    /\ UNCHANGED <<canSign, hpc, reqVersion, assetRead, urls, task, response, sent>>
    /\ UNCHANGED <<hwidVars, siteVars>>

\* PUT and DELETE /assets/:clientId: getLauncherAssetByClientId finds the row
AssetLookup(i) ==
    /\ areq[i].route \in {"updateAsset", "deleteAsset"} /\ areq[i].pc = "handler"
    /\ getLauncherAssetByClientId(ClientId) # {}
    /\ areq' = [areq EXCEPT
          ![i].pc = "write",
          ![i].rowId = (CHOOSE row \in getLauncherAssetByClientId(ClientId) : TRUE).id]
    /\ UNCHANGED <<api_keys, hwid_bans, alast, search, sqlite_sequence>>
    /\ UNCHANGED <<resolveVars, hwidVars, siteVars>>

\* PUT /assets/:clientId: getLauncherAssetByClientId finds no row, 404
UpdateNotFound(i, v, vs, vc, b) ==
    /\ areq[i].route = "updateAsset" /\ areq[i].pc = "handler"
    /\ getLauncherAssetByClientId(ClientId) = {}
    /\ alast' = AssetRequest("update", 404, v, vs, vc, b)
    /\ areq' = Leave(i)
    /\ UNCHANGED <<api_keys, hwid_bans, search, sqlite_sequence>>
    /\ UNCHANGED <<resolveVars, hwidVars, siteVars>>

\* PUT /assets/:clientId: updateLauncherAsset(db, asset.id, updates)
UpdateAsset(i, v, vs, vc, b) ==
    /\ areq[i].route = "updateAsset" /\ areq[i].pc = "write"
    /\ IF ~updateLauncherAsset(areq[i].rowId, UpdateKeys(v, vs, vc, b))
       THEN /\ alast' = AssetRequest("update", 500, v, vs, vc, b)
            /\ UNCHANGED launcher_assets
       ELSE /\ alast' = AssetRequest("update", 200, v, vs, vc, b)
            /\ launcher_assets' =
                 {IF row.id = areq[i].rowId THEN UpdatedRow(row, v, vs, vc, b) ELSE row :
                     row \in launcher_assets}
    /\ areq' = Leave(i)
    /\ UNCHANGED <<api_keys, hwid_bans, search, sqlite_sequence>>
    /\ UNCHANGED <<canSign, hpc, reqVersion, assetRead, urls, task, response, sent>>
    /\ UNCHANGED <<hwidVars, siteVars>>

\* DELETE /assets/:clientId: getLauncherAssetByClientId finds no row, 404
DeleteNotFound(i) ==
    /\ areq[i].route = "deleteAsset" /\ areq[i].pc = "handler"
    /\ getLauncherAssetByClientId(ClientId) = {}
    /\ alast' = AssetRequest("delete", 404, Absent, Absent, "absent", <<>>)
    /\ areq' = Leave(i)
    /\ UNCHANGED <<api_keys, hwid_bans, search, sqlite_sequence>>
    /\ UNCHANGED <<resolveVars, hwidVars, siteVars>>

\* DELETE /assets/:clientId: deleteLauncherAsset(db, asset.id)
DeleteAsset(i) ==
    /\ areq[i].route = "deleteAsset" /\ areq[i].pc = "write"
    /\ alast' = AssetRequest("delete",
                             IF deleteLauncherAsset(areq[i].rowId) THEN 200 ELSE 500,
                             Absent, Absent, "absent", <<>>)
    /\ launcher_assets' = {row \in launcher_assets : row.id # areq[i].rowId}
    /\ areq' = Leave(i)
    /\ UNCHANGED <<api_keys, hwid_bans, search, sqlite_sequence>>
    /\ UNCHANGED <<canSign, hpc, reqVersion, assetRead, urls, task, response, sent>>
    /\ UNCHANGED <<hwidVars, siteVars>>

\* no asset, or the plain row, and the operator's key
AssetInit ==
    /\ launcher_assets \in {{}, {PlainRow}}
    /\ canSign = {} /\ hpc = "idle" /\ reqVersion = "" /\ assetRead = {}
    /\ urls = NoTriple /\ task = [t \in Tasks |-> IdleTask]
    /\ response = NoResponse /\ sent = 0
    /\ HwidIdle /\ SiteIdle
    /\ api_keys = {KeyRow(BanKey, TRUE, "created")}
    /\ hwid_bans = {}
    /\ areq = <<>>
    /\ alast = NoAssetRequest
    /\ search = NoSearch
    /\ SequenceIdle

\* bodies sent while another request is in flight
RacingPairs == {<<[shape |-> "string", items |-> <<"v1">>], Absent>>,
                <<Absent, [shape |-> "array", items |-> <<"v1", "v2">>]>>}

AssetNext ==
    \/ \E route \in {"createAsset", "updateAsset", "deleteAsset"} : AssetArrives(route)
    \/ \E i \in DOMAIN areq : ValidateSelect(i)
    \/ \E i \in DOMAIN areq : ValidateTouch(i)
    \/ \E i \in DOMAIN areq : AssetLookup(i)
    \/ \E i \in DOMAIN areq, p \in VersionPairs :
          Len(areq) = 1 /\ CreateAsset(i, p[1], p[2], GivenUrls, NoConfigs)
    \/ \E i \in DOMAIN areq, p \in RacingPairs :
          CreateAsset(i, p[1], p[2], GivenUrls, NoConfigs)
    \/ \E i \in DOMAIN areq, p \in VersionPairs :
          Len(areq) = 1 /\ UpdateAsset(i, p[1], p[2], "absent", <<>>)
    \/ \E i \in DOMAIN areq, vc \in VcInputs, b \in BaseUrlInputs :
          UpdateAsset(i, Absent, Absent, vc, b)
    \/ \E i \in DOMAIN areq, b \in BaseUrlInputs :
          UpdateNotFound(i, Absent, Absent, "absent", b)
    \/ \E i \in DOMAIN areq : DeleteNotFound(i)
    \/ \E i \in DOMAIN areq : DeleteAsset(i)

AssetSpec == AssetInit /\ [][AssetNext]_vars

StoredAsset == getLauncherAssetByClientId(ClientId)

\* the last request succeeded and its body carried version or versions
SuppliedVersions ==
    /\ alast.status \in {200, 201}
    /\ alast.version.shape # "absent" \/ alast.versions.shape # "absent"

\* the versions the body lists, version first
SubmittedItems == alast.version.items \o alast.versions.items

FirstIndex(seq, t) ==
    IF \E k \in DOMAIN seq : Trim(seq[k]) = Trim(t)
    THEN CHOOSE k \in DOMAIN seq :
            Trim(seq[k]) = Trim(t) /\ \A m \in 1..(k - 1) : Trim(seq[m]) # Trim(t)
    ELSE 0

\* C18: after every successful create or update that supplies version
\* information, the stored versions list has no duplicates, keeps the order of
\* first occurrence, and the stored legacy version is its first element.
C18_StoredVersionsNormalized ==
    SuppliedVersions =>
        \A row \in StoredAsset :
            row.versions.kind = "json" =>
                LET list == row.versions.val
                IN /\ \A a, b \in DOMAIN list : list[a] = list[b] => a = b
                   /\ \A a, b \in DOMAIN list :
                         (a < b /\ FirstIndex(SubmittedItems, list[a]) > 0
                                /\ FirstIndex(SubmittedItems, list[b]) > 0)
                            => FirstIndex(SubmittedItems, list[a])
                                   < FirstIndex(SubmittedItems, list[b])
                   /\ list # <<>> /\ row.version = list[1]

\* the body of request q submits list back, in one of the accepted shapes
Resubmits(q, list) ==
    \/ q.version.shape \in {"array", "json"} /\ q.version.items = list
          /\ q.versions.shape = "absent"
    \/ q.version.shape = "absent"
          /\ q.versions.shape \in {"array", "json"} /\ q.versions.items = list
    \/ q.version.shape = "string" /\ q.version.items = list /\ q.versions.shape = "absent"

\* C19: normalization is idempotent: an update that submits the asset's stored
\* versions list back, in any accepted shape, stores the same list in the same
\* order and the same legacy version.
C19_ResubmissionChangesNothing ==
    [][\A row \in StoredAsset :
          (/\ alast'.op = "update" /\ alast'.status = 200
           /\ row.versions.kind = "json" /\ Resubmits(alast', row.versions.val))
             => \A after \in getLauncherAssetByClientId(ClientId)' :
                   after.versions = row.versions /\ after.version = row.version]_vars

\* C20: an update whose version_configs is a string that is not valid JSON is
\* not rejected: it succeeds, the stored version_configs keeps its value, and
\* the other fields of the same update, possibly none, are applied.
C20_InvalidVersionConfigsIgnored ==
    [][\A row \in StoredAsset :
          (alast'.op = "update" /\ alast'.version_configs = "invalid" /\ alast' # alast)
             => /\ alast'.status = 200
                /\ \A after \in getLauncherAssetByClientId(ClientId)' :
                      /\ after.version_configs = row.version_configs
                      /\ after.base_url = IF alast'.base_url = <<>> THEN row.base_url
                                          ELSE alast'.base_url]_vars

(***************************************************************************)
(* POST /assets with per-version configs: the backfill of the top-level    *)
(* URLs.                                                                   *)
(***************************************************************************)

\* top-level URLs of a body: each given or absent
UrlInputs == [UrlFields -> {Empty, <<"top">>}]
TopUrls(u) == [f \in UrlFields |-> IF u[f] = Empty THEN Empty ELSE DefaultUrl(f)]

\* bodies of a create: version "v1" with every combination of given URLs and
\* of fields in the v1 entry, and a version list headed by v2
CreateInputs ==
    ({[shape |-> "string", items |-> <<"v1">>]}
        \X {TopUrls(u) : u \in UrlInputs}
        \X ({NoConfigs, InvalidConfigs, [shape |-> "object", val |-> {}],
             [shape |-> "object", val |-> {FullEntry("v2")}]}
            \cup {[shape |-> "object", val |-> {e}] : e \in VcEntries("v1")}))
    \cup ({[shape |-> "array", items |-> <<"v2", " v1">>]}
            \X {NoTriple, GivenUrls}
            \X {[shape |-> "json", val |-> {FullEntry("v1"), FullEntry("v2")}],
                [shape |-> "object", val |-> {FullEntry("v1")}]})

\* creates and deletes, one request after another
CreateNext ==
    \/ \E route \in {"createAsset", "deleteAsset"} : areq = <<>> /\ AssetArrives(route)
    \/ \E i \in DOMAIN areq : ValidateSelect(i)
    \/ \E i \in DOMAIN areq : ValidateTouch(i)
    \/ \E i \in DOMAIN areq, in \in CreateInputs : CreateAsset(i, in[1], Absent, in[2], in[3])
    \/ \E i \in DOMAIN areq : AssetLookup(i)
    \/ \E i \in DOMAIN areq : DeleteNotFound(i)
    \/ \E i \in DOMAIN areq : DeleteAsset(i)

CreateSpec == AssetInit /\ [][CreateNext]_vars

\* what the claim expects in field f after the backfill: the given value, or
\* the value the default version's entry supplies
ExpectedUrl(q, f) ==
    IF q.urls[f] # Empty THEN q.urls[f]
    ELSE IF \E e \in q.configs.val : e.ver = DefaultVersion(q.version, q.versions)
         THEN (CHOOSE e \in q.configs.val :
                  e.ver = DefaultVersion(q.version, q.versions))[f]
         ELSE Empty

\* C21: on create, an absent top-level URL is filled from the version_configs
\* entry of the default version when the entry supplies it; if a field is
\* still missing the create is rejected (400) and stores nothing, and
\* otherwise the stored defaults are the supplied-or-backfilled values.
C21_CreateBackfillsUrls ==
    [][(alast'.op = "create" /\ alast' # alast /\ alast'.version.shape # "absent") =>
          IF \E f \in UrlFields : ExpectedUrl(alast', f) = Empty
          THEN alast'.status = 400 /\ launcher_assets' = launcher_assets
          ELSE /\ alast'.status \in {201, 500}
               /\ alast'.status = 201 =>
                     \E row \in launcher_assets' \ launcher_assets :
                         \A f \in UrlFields : row[f] = ExpectedUrl(alast', f)]_vars

C21_Witness ==
    /\ alast.op = "create" /\ alast.status = 201
    /\ alast.urls.base_url = DefaultUrl("base_url")
    /\ alast.urls.mods_manifest_url = Empty /\ alast.urls.rp_manifest_url = Empty
    /\ \E row \in launcher_assets :
          /\ row.base_url = DefaultUrl("base_url")
          /\ row.mods_manifest_url = OverrideUrl("v1", "mods_manifest_url")
          /\ row.rp_manifest_url = OverrideUrl("v1", "rp_manifest_url")

----------------------------------------------------------------------------
(* routes/admin: POST /java and PUT /java; routes/public: GET /assets/java; *)
(* database/operations: createJavaAsset, getJavaAsset, updateJavaAsset     *)

MaxJavaRequests == 3

\* req.body.source: absent, the two accepted names, another name
SourceInputs == {<<>>, <<"Codectivity-cdn">>, <<"custom">>, <<"other">>}
\* req.body.java_data: absent, or an object
JavaDataInputs == {<<>>, <<"jd">>}

\* source && ['Codectivity-cdn', 'custom'].includes(source)
ValidSource(s) == s \in {<<"Codectivity-cdn">>, <<"custom">>}

\* source === 'custom' ? JSON.stringify(java_data) : ''
CreateJavaData(s, d) == IF s = <<"custom">> THEN <<"json", d[1]>> ELSE <<>>

JavaRequest(op, s, d, pc, status) ==
    [op |-> op, source |-> s, java_data |-> d, pc |-> pc, status |-> status,
     existing |-> 0]

\* POST /java up to the call of createJavaAsset
JavaCreateStart(s, d) ==
    /\ Len(jreq) < MaxJavaRequests
    /\ jreq' = Append(jreq,
          IF ~ValidSource(s) THEN JavaRequest("create", s, d, "done", 400)
          ELSE IF s = <<"custom">> /\ d = <<>>
               THEN JavaRequest("create", s, d, "done", 400)
          ELSE JavaRequest("create", s, d, "check", 0))
    /\ UNCHANGED <<java_assets, news, listing, session, wlast, wreq, db, handed, llast>>
    /\ UNCHANGED <<resolveVars, hwidVars, adminVars>>

\* SELECT * FROM java_assets LIMIT 1: the id of the first row, 0 for none
FirstJavaId == IF java_assets = <<>> THEN 0 ELSE java_assets[1].id

\* createJavaAsset: the existence check
JavaCreateCheck(i) ==
    /\ jreq[i].op = "create" /\ jreq[i].pc = "check"
    /\ jreq' = [jreq EXCEPT ![i].existing = FirstJavaId, ![i].pc = "write"]
    /\ UNCHANGED <<java_assets, news, listing, session, wlast, wreq, db, handed, llast>>
    /\ UNCHANGED <<resolveVars, hwidVars, adminVars>>

\* UPDATE java_assets SET source = ?, java_data = ? WHERE id = ?
UpdateJavaById(id, s, d) ==
    [k \in DOMAIN java_assets |->
        IF java_assets[k].id = id
        THEN [java_assets[k] EXCEPT !.source = s, !.java_data = d]
        ELSE java_assets[k]]

\* INSERT INTO java_assets (source, java_data) VALUES (?, ?)
InsertJava(s, d) ==
    Append(java_assets, [id |-> Len(java_assets) + 1, source |-> s, java_data |-> d])

\* createJavaAsset: the update of the row found, or the insert; then 201
JavaCreateWrite(i) ==
    /\ jreq[i].op = "create" /\ jreq[i].pc = "write"
    /\ LET s == jreq[i].source[1]
           d == CreateJavaData(jreq[i].source, jreq[i].java_data)
       IN  java_assets' = IF jreq[i].existing # 0
                          THEN UpdateJavaById(jreq[i].existing, s, d)
                          ELSE InsertJava(s, d)
    /\ jreq' = [jreq EXCEPT ![i].status = 201, ![i].pc = "done"]
    /\ UNCHANGED <<news, listing, session, wlast, wreq, db, handed, llast>>
    /\ UNCHANGED <<resolveVars, hwidVars, adminVars>>

\* the keys of updates in PUT /java
JavaUpdateKeys(s, d) ==
    (IF ValidSource(s) THEN {"source"} ELSE {})
    \cup (IF d # <<>> /\ s = <<"custom">> THEN {"java_data"} ELSE {})

\* UPDATE java_assets SET ${fields} WHERE id = 1
updateJavaAsset(s, d) ==
    [k \in DOMAIN java_assets |->
        IF java_assets[k].id = 1
        THEN [java_assets[k] EXCEPT
                 !.source = IF "source" \in JavaUpdateKeys(s, d) THEN s[1] ELSE @,
                 !.java_data = IF "java_data" \in JavaUpdateKeys(s, d)
                               THEN <<"json", d[1]>> ELSE @]
        ELSE java_assets[k]]

\* PUT /java
JavaUpdate(s, d) ==
    /\ Len(jreq) < MaxJavaRequests
    /\ IF JavaUpdateKeys(s, d) = {}
       THEN /\ jreq' = Append(jreq, JavaRequest("update", s, d, "done", 400))
            /\ UNCHANGED java_assets
       ELSE /\ java_assets' = updateJavaAsset(s, d)
            /\ jreq' = Append(jreq, JavaRequest("update", s, d, "done",
                  IF \E k \in DOMAIN java_assets : java_assets[k].id = 1
                  THEN 200 ELSE 404))
    /\ UNCHANGED <<news, listing, session, wlast, wreq, db, handed, llast>>
    /\ UNCHANGED <<resolveVars, hwidVars, adminVars>>

\* GET /public/assets/java: what the handler answers for the stored rows
PublicJavaAnswer ==
    IF java_assets = <<>> THEN "cdn"
    ELSE IF java_assets[1].source = "Codectivity-cdn" THEN "cdn"
    ELSE IF java_assets[1].source = "custom"
         THEN IF java_assets[1].java_data = <<>>
              THEN "Custom Java data not configured"
              ELSE "custom"
    ELSE "Invalid Java asset source configuration"

JavaInit ==
    /\ ResolveIdle /\ HwidIdle /\ SiteIdle
    /\ api_keys = {KeyRow(BanKey, TRUE, "created")}
    /\ hwid_bans = {}
    /\ areq = <<>>
    /\ alast = NoAssetRequest
    /\ search = NoSearch
    /\ SequenceIdle

JavaNext ==
    \/ \E s \in SourceInputs, d \in JavaDataInputs : JavaCreateStart(s, d)
    \/ \E i \in DOMAIN jreq : JavaCreateCheck(i)
    \/ \E i \in DOMAIN jreq : JavaCreateWrite(i)
    \/ \E s \in SourceInputs, d \in JavaDataInputs : JavaUpdate(s, d)

JavaSpec == JavaInit /\ [][JavaNext]_vars

\* C22: the Java configuration is a singleton: after any sequence of create
\* and update requests, concurrent creates included, the store holds at most
\* one Java record.
C22_JavaSingleton == Len(java_assets) <= 1

\* C29: after any sequence of accepted create and update requests, a stored
\* source custom comes with a non-empty JSON blob as java_data, so the public
\* endpoint never answers 'Custom Java data not configured'.
C29_CustomHasJavaData ==
    /\ \A k \in DOMAIN java_assets :
          java_assets[k].source = "custom" => java_assets[k].java_data # <<>>
    /\ PublicJavaAnswer # "Custom Java data not configured"

----------------------------------------------------------------------------
(* routes/setup: POST /setup/create-first-key *)

SetupKeyInputs == {"", "k1", "k2"}

\* a request to the setup router: no authenticateApiKey in front of it
SetupRequestRecord(k, pc, status) ==
    [route |-> "setup", header |-> NoHeader, hwid |-> "", reason |-> <<>>, key |-> k,
     keyState |-> "none", pc |-> pc, status |-> status,
     error |-> IF status = 400 THEN "Bad Request" ELSE "",
     message |-> IF status = 400 THEN "API key is required" ELSE "",
     ban |-> NoBan, wrote |-> 0]

\* POST /create-first-key up to the call of getAllApiKeys
SetupStart(k) ==
    /\ Len(hreq) + Len(areq) < MaxRequests
    /\ areq' = Append(areq, IF k = "" THEN SetupRequestRecord(k, "done", 400)
                            ELSE SetupRequestRecord(k, "check", 0))
    /\ UNCHANGED <<api_keys, hwid_bans, alast, search, sqlite_sequence>>
    /\ UNCHANGED <<resolveVars, hwidVars, siteVars>>

\* SELECT * FROM api_keys: existingKeys.length > 0
KeysExist == api_keys # {}

\* getAllApiKeys has resolved: 403 when a key exists
SetupCheck(i) ==
    /\ areq[i].route = "setup" /\ areq[i].pc = "check"
    /\ areq' = IF KeysExist
               THEN Finish(i, 403, "Forbidden",
                      "API keys already exist. Use admin endpoints with authentication.")
               ELSE [areq EXCEPT ![i].pc = "insert"]
    /\ UNCHANGED <<api_keys, hwid_bans, alast, search, sqlite_sequence>>
    /\ UNCHANGED <<resolveVars, hwidVars, siteVars>>

\* createApiKey runs: 201, or 500 when the INSERT fails
SetupInsert(i) ==
    /\ areq[i].route = "setup" /\ areq[i].pc = "insert"
    /\ IF InsertViolatesUnique(areq[i].key)
       THEN /\ areq' = [Finish(i, 500, "Internal Server Error", "Failed to create API key")
                          EXCEPT ![i].wrote = clock + 1]
            /\ UNCHANGED api_keys
       ELSE /\ api_keys' = createApiKey(areq[i].key)
            /\ areq' = [Finish(i, 201, "",
                          "First API key created successfully. Use this key for admin authentication.")
                          EXCEPT ![i].wrote = clock + 1]
    /\ clock' = clock + 1
    /\ UNCHANGED <<hwid_bans, alast, search, sqlite_sequence>>
    /\ UNCHANGED <<resolveVars, hwid_joined, hwid_logs, hreq, siteVars>>

\* a request passing through optionalApiKeyAuth: with a bearer key
\* validateApiKey is called, and next() is reached in every case
OptionalRequest(header) ==
    /\ Len(hreq) + Len(areq) < MaxRequests
    /\ areq' = Append(areq,
          [route |-> "optional", header |-> header, hwid |-> "", reason |-> <<>>,
           key |-> "", keyState |-> IF IsBearer(header) THEN "pending" ELSE "none",
           pc |-> IF IsBearer(header) /\ getDatabase = "handle" THEN "validate" ELSE "done",
           status |-> 0, error |-> "", message |-> "", ban |-> NoBan, rowId |-> 0,
           wrote |-> 0])
    /\ UNCHANGED <<api_keys, hwid_bans, alast, search, sqlite_sequence>>
    /\ UNCHANGED <<resolveVars, hwidVars, siteVars>>

\* validateApiKey under optionalApiKeyAuth: the SELECT
OptionalSelect(i) ==
    /\ areq[i].route = "optional" /\ areq[i].pc = "validate"
    /\ areq' = [areq EXCEPT
          ![i].keyState = KeyState(areq[i].header),
          ![i].pc = IF ActiveKeyRows(areq[i].header[2]) # {} THEN "touch" ELSE "done"]
    /\ UNCHANGED <<api_keys, hwid_bans, alast, search, sqlite_sequence>>
    /\ UNCHANGED <<resolveVars, hwidVars, siteVars>>

\* validateApiKey under optionalApiKeyAuth: the UPDATE of last_used; next()
OptionalTouch(i) ==
    /\ areq[i].route = "optional" /\ areq[i].pc = "touch"
    /\ api_keys' = TouchLastUsed(areq[i].header)
    /\ areq' = [areq EXCEPT ![i].pc = "done"]
    /\ UNCHANGED <<hwid_bans, alast, search, sqlite_sequence>>
    /\ UNCHANGED <<resolveVars, hwidVars, siteVars>>

OptionalHeaders == {NoHeader, BearerHeader("k1"), BearerHeader("k3")}

\* an empty key table, or one key, active or deactivated
SetupInit ==
    /\ ResolveIdle /\ HwidIdle /\ SiteIdle
    /\ api_keys \in {{}, {KeyRow("k3", TRUE, "created")}, {KeyRow("k3", FALSE, "created")}}
    /\ hwid_bans = {}
    /\ areq = <<>>
    /\ alast = NoAssetRequest
    /\ search = NoSearch
    /\ SequenceIdle

SetupNext ==
    \/ \E k \in SetupKeyInputs : SetupStart(k)
    \/ \E i \in DOMAIN areq : SetupCheck(i)
    \/ \E i \in DOMAIN areq : SetupInsert(i)
    \/ \E hd \in OptionalHeaders : OptionalRequest(hd)
    \/ \E i \in DOMAIN areq : OptionalSelect(i)
    \/ \E i \in DOMAIN areq : OptionalTouch(i)

SetupSpec == SetupInit /\ [][SetupNext]_vars

\* the setup requests answered 201
SetupCreated == {i \in DOMAIN areq : areq[i].route = "setup" /\ areq[i].status = 201}

\* C23: create-first-key creates a key only when no key row exists: over any
\* interleaving of setup requests at most one key is created without
\* authentication, and none when the table held a key at the start.
C23_SetupCreatesAtMostOneKey ==
    /\ Cardinality(SetupCreated) <= 1
    /\ Cardinality(api_keys) <= 1

----------------------------------------------------------------------------
(* routes/admin: POST /news, PUT /news/:id, DELETE /news/:id;              *)
(* routes/public: GET /news; database/operations: createNews, getAllNews, *)
(* getNewsById, updateNews, deleteNews                                     *)

MaxNews == 2

\* req.body.client_id of POST /news: absent or null, '', a client
NewsClientInputs == {<<>>, <<"">>, <<"acme">>, <<"other">>}
\* req.query.client_id of GET /news: absent, '', a client
ListingInputs == {<<>>, <<"">>, <<"acme">>, <<"other">>}
\* req.body of PUT /news/:id: no field, a title, a client_id
NewsUpdateInputs ==
    {[keys |-> {}, client_id |-> <<>>], [keys |-> {"title"}, client_id |-> <<>>],
     [keys |-> {"client_id"}, client_id |-> <<"acme">>],
     [keys |-> {"client_id"}, client_id |-> <<>>]}

\* id INTEGER PRIMARY KEY AUTOINCREMENT: one more than the last id given out
NextNewsId == sqlite_sequence.news + 1

\* a request to a news route of the admin router enters authenticateApiKey
\* with the operator's key; its parameters are read where the handler first
\* uses them
NewsArrives(route) ==
    /\ AtMostOneInFlight
    /\ route = "createNews" =>
          sqlite_sequence.news
             + Cardinality({i \in DOMAIN areq : areq[i].route = "createNews"}) < MaxNews
    /\ AdminRequest(route, BearerHeader(BanKey), "", <<>>, "")

NewsRequest(op, status) == AssetRequest(op, status, Absent, Absent, "absent", <<>>)

\* POST /news without title or description: 400
CreateNewsRejected(i) ==
    /\ areq[i].route = "createNews" /\ areq[i].pc = "handler"
    /\ alast' = NewsRequest("createNews", 400)
    /\ areq' = Leave(i)
    /\ UNCHANGED <<api_keys, hwid_bans, search, sqlite_sequence>>
    /\ UNCHANGED <<resolveVars, hwidVars, siteVars>>

\* POST /news: INSERT INTO news (client_id, ...) VALUES (client_id ?? null, ...)
CreateNews(i, c) ==
    /\ areq[i].route = "createNews" /\ areq[i].pc = "handler"
    /\ news' = news \cup {[id |-> NextNewsId, client_id |-> c]}
    /\ sqlite_sequence' = [sqlite_sequence EXCEPT !.news = @ + 1]
    /\ alast' = NewsRequest("createNews", 201)
    /\ areq' = Leave(i)
    /\ UNCHANGED <<api_keys, hwid_bans, search>>
    /\ UNCHANGED <<java_assets, jreq, listing, session, wlast, wreq, db, handed, llast>>
    /\ UNCHANGED <<resolveVars, hwidVars>>

\* SELECT * FROM news WHERE id = ?
getNewsById(id) == {row \in news : row.id = id}

\* PUT and DELETE /news/:id: getNewsById, 404 without a row
NewsLookup(i, id) ==
    /\ areq[i].route \in {"updateNews", "deleteNews"} /\ areq[i].pc = "handler"
    /\ IF getNewsById(id) = {}
       THEN /\ alast' = NewsRequest(areq[i].route, 404)
            /\ areq' = Leave(i)
       ELSE /\ areq' = [areq EXCEPT ![i].pc = "write", ![i].rowId = id]
            /\ UNCHANGED alast
    /\ UNCHANGED <<api_keys, hwid_bans, search, sqlite_sequence>>
    /\ UNCHANGED <<resolveVars, hwidVars, siteVars>>

\* updateNews: result.changes > 0; with no field the statement
\* "SET , modified_at = ..." fails and the route answers 500 as for false
updateNews(id, updates) == updates.keys # {} /\ getNewsById(id) # {}

\* PUT /news/:id: updateNews(db, id, req.body)
UpdateNews(i, updates) ==
    /\ areq[i].route = "updateNews" /\ areq[i].pc = "write"
    /\ alast' = NewsRequest("updateNews",
                            IF updateNews(areq[i].rowId, updates) THEN 200 ELSE 500)
    /\ news' = IF updateNews(areq[i].rowId, updates) /\ "client_id" \in updates.keys
               THEN {IF row.id = areq[i].rowId
                     THEN [row EXCEPT !.client_id = updates.client_id] ELSE row :
                        row \in news}
               ELSE news
    /\ areq' = Leave(i)
    /\ UNCHANGED <<api_keys, hwid_bans, search, sqlite_sequence>>
    /\ UNCHANGED <<java_assets, jreq, listing, session, wlast, wreq, db, handed, llast>>
    /\ UNCHANGED <<resolveVars, hwidVars>>

\* deleteNews: result.changes > 0
deleteNews(id) == getNewsById(id) # {}

\* DELETE /news/:id: deleteNews(db, id)
DeleteNews(i) ==
    /\ areq[i].route = "deleteNews" /\ areq[i].pc = "write"
    /\ alast' = NewsRequest("deleteNews", IF deleteNews(areq[i].rowId) THEN 200 ELSE 500)
    /\ news' = news \ getNewsById(areq[i].rowId)
    /\ areq' = Leave(i)
    /\ UNCHANGED <<api_keys, hwid_bans, search, sqlite_sequence>>
    /\ UNCHANGED <<java_assets, jreq, listing, session, wlast, wreq, db, handed, llast>>
    /\ UNCHANGED <<resolveVars, hwidVars>>

\* the rows selected by getAllNews(db, clientId)
getAllNews(q) ==
    IF q = <<>> THEN news                                      \* no WHERE clause
    ELSE IF q = <<"">> THEN {r \in news : r.client_id = <<>>}  \* client_id IS NULL
    ELSE {r \in news : r.client_id = q}                        \* client_id = ?

\* GET /public/news?client_id=...
ListNews(q) ==
    /\ listing' = [asked |-> TRUE, client_id |-> q,
                   ids |-> {r.id : r \in getAllNews(q)}]
    /\ UNCHANGED <<java_assets, jreq, news, session, wlast, wreq, db, handed, llast>>
    /\ UNCHANGED <<resolveVars, hwidVars, adminVars>>

NewsInit ==
    /\ ResolveIdle /\ HwidIdle /\ SiteIdle
    /\ api_keys = {KeyRow(BanKey, TRUE, "created")}
    /\ hwid_bans = {}
    /\ areq = <<>>
    /\ alast = NoAssetRequest
    /\ search = NoSearch
    /\ SequenceIdle

NewsNext ==
    \/ areq = <<>> /\ NewsArrives("createNews")
    \/ \E route \in {"updateNews", "deleteNews"} : NewsArrives(route)
    \/ \E i \in DOMAIN areq : ValidateSelect(i)
    \/ \E i \in DOMAIN areq : ValidateTouch(i)
    \/ \E i \in DOMAIN areq : CreateNewsRejected(i)
    \/ \E i \in DOMAIN areq, c \in NewsClientInputs : CreateNews(i, c)
    \/ \E i \in DOMAIN areq, id \in 1..MaxNews : NewsLookup(i, id)
    \/ \E i \in DOMAIN areq, updates \in NewsUpdateInputs : UpdateNews(i, updates)
    \/ \E i \in DOMAIN areq : DeleteNews(i)
    \/ \E q \in ListingInputs : ListNews(q)

NewsSpec == NewsInit /\ [][NewsNext]_vars

\* the articles of table rows visible to client c: the global ones and c's own
VisibleTo(rows, c) == {r.id : r \in {x \in rows : x.client_id = <<>> \/ x.client_id = c}}

\* C24: a news listing requested for client C returns exactly the articles
\* that are global (null client_id) or scoped to C.
C24_NewsVisibility ==
    [][(listing' # listing /\ listing'.client_id \in {<<"acme">>, <<"other">>}) =>
          listing'.ids = VisibleTo(news, listing'.client_id)]_vars

----------------------------------------------------------------------------
(* routes/public: POST /hwid, the checks before the first await *)

SubmitNext ==
    \/ \E missing \in BOOLEAN, date \in LoginDateInputs : LogReject(missing, date)
    \/ \E h \in Hwids, flag \in FlagValues, date \in LoginDateInputs : LogStart(h, flag, date)
    \/ \E i \in DOMAIN hreq : LogRead(i)
    \/ \E i \in DOMAIN hreq : LogInsert(i)

SubmitSpec == HwidInit /\ [][SubmitNext]_vars

\* the log requests that were answered 201
LoggedRequests == {i \in DOMAIN hreq : hreq[i].op = "log" /\ hreq[i].pc = "done"}

\* C25: a submission with a required field missing or with a login_date that
\* is no date is answered 400 and inserts no row; a valid submission appends
\* exactly one row.
C25_InvalidSubmissionIs400 ==
    /\ llast.status # 0 => llast.status = 400
    /\ Len(hwid_logs) = Cardinality(LoggedRequests)

----------------------------------------------------------------------------
(* app: the mount points; routes/web: requireAuth, POST /login, GET /logout *)

\* const currentVersion = 'v2': the admin router is mounted at /v2/admin
currentVersion == "v2"

\* the path requested to validate a key: /v1/admin/keys
ValidationVersion == "v1"

\* the paths /<version>/admin/keys the app serves through the admin router
AdminMounted(version) == version = currentVersion

\* the status code of GET /<version>/admin/keys with Authorization: Bearer key;
\* a path no router serves gets the 404 of Express
KeysRouteStatus(version, key) ==
    IF ~AdminMounted(version) THEN 404
    ELSE IF NextCalled(BearerHeader(key)) THEN 200
    ELSE authenticateApiKey(BearerHeader(key)).status

\* the validation request reaches validateApiKey only on a served path
ValidationTouch(key) ==
    IF AdminMounted(ValidationVersion) THEN TouchLastUsed(BearerHeader(key)) ELSE api_keys

\* req.body.apiKey of POST /login, the x-api-key header of a page request
WebKeyInputs == {"", "k1", "k2", "k3"}

\* the protected pages: the dashboard, which fetches keys, assets and news
\* before it renders, and a page rendered at once
Pages == {"/", "/keys"}

\* the requests the dashboard awaits, in order
DashboardFetches == <<"keys", "assets", "news">>

WebOutcome(route, b, key, result) ==
    [route |-> route, browser |-> b, key |-> key, result |-> result]

\* a request to the web router arrives while at most one other awaits
WebArrives == Len(wreq) <= 1

\* the answered request leaves
WebLeave(i) == [k \in 1..(Len(wreq) - 1) |-> IF k < i THEN wreq[k] ELSE wreq[k + 1]]

\* POST /login: without a key the redirect, else the validation request is sent
WebLogin(b, k) ==
    /\ WebArrives
    /\ IF k = ""
       THEN /\ wlast' = WebOutcome("login", b, <<>>, "/login?error=required")
            /\ UNCHANGED wreq
       ELSE /\ wreq' = Append(wreq, [route |-> "login", browser |-> b, key |-> <<k>>,
                                     pc |-> "validating", body |-> FALSE])
            /\ UNCHANGED wlast
    /\ UNCHANGED <<java_assets, jreq, news, listing, session, db, handed, llast>>
    /\ UNCHANGED adminVars
    /\ UNCHANGED <<resolveVars, hwidVars>>

\* POST /login: the validation request is answered (ok), or it rejects and
\* the catch block redirects without storing the key
WebLoginValidated(i, ok) ==
    /\ wreq[i].route = "login" /\ wreq[i].pc = "validating"
    /\ IF ~ok \/ KeysRouteStatus(ValidationVersion, wreq[i].key[1]) = 401
       THEN /\ wlast' = WebOutcome("login", wreq[i].browser, wreq[i].key,
                                   "/login?error=invalid")
            /\ UNCHANGED <<session, api_keys>>
       ELSE /\ session' = [session EXCEPT ![wreq[i].browser] = wreq[i].key]
            /\ api_keys' = ValidationTouch(wreq[i].key[1])
            /\ wlast' = WebOutcome("login", wreq[i].browser, wreq[i].key, "/")
    /\ wreq' = WebLeave(i)
    /\ UNCHANGED <<java_assets, jreq, news, listing, db, handed, llast>>
    /\ UNCHANGED <<hwid_bans, areq, alast, search, sqlite_sequence>>
    /\ UNCHANGED <<resolveVars, hwidVars>>

\* session.apiKey || req.headers['x-api-key']
PresentedKey(b, h) ==
    IF session[b] # <<>> THEN session[b] ELSE IF h = "" THEN <<>> ELSE <<h>>

\* a protected page: requireAuth reads the key; without one the redirect,
\* else the validation request is sent
WebPage(b, h, page) ==
    /\ WebArrives
    /\ IF PresentedKey(b, h) = <<>>
       THEN /\ wlast' = WebOutcome("page", b, <<>>, "/login")
            /\ UNCHANGED wreq
       ELSE /\ wreq' = Append(wreq, [route |-> page, browser |-> b,
                                     key |-> PresentedKey(b, h), pc |-> "validating",
                                     body |-> FALSE])
            /\ UNCHANGED wlast
    /\ UNCHANGED <<java_assets, jreq, news, listing, session, db, handed, llast>>
    /\ UNCHANGED adminVars
    /\ UNCHANGED <<resolveVars, hwidVars>>

\* requireAuth: the validation request is answered (ok) and the key read
\* before it was sent is stored in the session and next() is called, or the
\* request rejects and the catch block redirects without storing the key
WebPageValidated(i, ok) ==
    /\ wreq[i].route \in Pages /\ wreq[i].pc = "validating"
    /\ IF ~ok \/ KeysRouteStatus(ValidationVersion, wreq[i].key[1]) = 401
       THEN /\ wlast' = WebOutcome("page", wreq[i].browser, wreq[i].key,
                                   "/login?error=invalid")
            /\ wreq' = WebLeave(i)
            /\ UNCHANGED <<session, api_keys>>
       ELSE /\ session' = [session EXCEPT ![wreq[i].browser] = wreq[i].key]
            /\ api_keys' = ValidationTouch(wreq[i].key[1])
            /\ IF wreq[i].route = "/"
               \* the dashboard: const apiKey = req.session.apiKey, first fetch sent
               THEN /\ wreq' = [wreq EXCEPT ![i].pc = DashboardFetches[1]]
                    /\ UNCHANGED wlast
               ELSE /\ wlast' = WebOutcome("page", wreq[i].browser, wreq[i].key,
                                           "rendered")
                    /\ wreq' = WebLeave(i)
    /\ UNCHANGED <<java_assets, jreq, news, listing, db, handed, llast>>
    /\ UNCHANGED <<hwid_bans, areq, alast, search, sqlite_sequence>>
    /\ UNCHANGED <<resolveVars, hwidVars>>

\* the dashboard: what follows the fetch at position k, the next request
\* being sent or, after the last one, the page being rendered
DashboardAfter(i, k) ==
    IF k = Len(DashboardFetches)
    THEN /\ wlast' = WebOutcome("page", wreq[i].browser, wreq[i].key, "rendered")
         /\ wreq' = WebLeave(i)
    ELSE /\ wreq' = [wreq EXCEPT ![i].pc = DashboardFetches[k + 1], ![i].body = FALSE]
         /\ UNCHANGED wlast

\* the dashboard: await request(...) of one of its three fetches settles; with
\* a response the handler goes on to await response.body.json(), a rejection
\* is caught, leaves the list empty and the next fetch follows
WebDashboardFetch(i, ok) ==
    /\ wreq[i].route = "/" /\ wreq[i].pc # "validating" /\ ~wreq[i].body
    /\ IF ok
       THEN /\ wreq' = [wreq EXCEPT ![i].body = TRUE]
            /\ UNCHANGED wlast
       ELSE DashboardAfter(i, CHOOSE k \in DOMAIN DashboardFetches :
                                  DashboardFetches[k] = wreq[i].pc)
    /\ UNCHANGED <<java_assets, jreq, news, listing, session, db, handed, llast>>
    /\ UNCHANGED adminVars
    /\ UNCHANGED <<resolveVars, hwidVars>>

\* the dashboard: await response.body.json() settles (a body that is no JSON
\* is caught like a failed request), and the next fetch follows
WebDashboardBody(i) ==
    /\ wreq[i].route = "/" /\ wreq[i].pc # "validating" /\ wreq[i].body
    /\ DashboardAfter(i, CHOOSE k \in DOMAIN DashboardFetches :
                              DashboardFetches[k] = wreq[i].pc)
    /\ UNCHANGED <<java_assets, jreq, news, listing, session, db, handed, llast>>
    /\ UNCHANGED adminVars
    /\ UNCHANGED <<resolveVars, hwidVars>>

\* GET /logout: the session is destroyed
WebLogout(b) ==
    /\ session' = [session EXCEPT ![b] = <<>>]
    /\ wlast' = WebOutcome("logout", b, <<>>, "/login")
    /\ UNCHANGED <<java_assets, jreq, news, listing, wreq, db, handed, llast>>
    /\ UNCHANGED adminVars
    /\ UNCHANGED <<resolveVars, hwidVars>>

\* the API holds k1 active, k2 active or deactivated, and never k3
WebInit ==
    /\ ResolveIdle /\ HwidIdle /\ SiteIdle
    /\ \E a \in BOOLEAN :
          api_keys = {KeyRow("k1", TRUE, "created"), KeyRow("k2", a, "created")}
    /\ hwid_bans = {}
    /\ areq = <<>>
    /\ alast = NoAssetRequest
    /\ search = NoSearch
    /\ SequenceIdle

WebNext ==
    \/ \E b \in Browsers, k \in WebKeyInputs : WebLogin(b, k)
    \/ \E i \in DOMAIN wreq, ok \in BOOLEAN : WebLoginValidated(i, ok)
    \/ \E b \in Browsers, h \in WebKeyInputs, page \in Pages : WebPage(b, h, page)
    \/ \E i \in DOMAIN wreq, ok \in BOOLEAN : WebPageValidated(i, ok)
    \/ \E i \in DOMAIN wreq, ok \in BOOLEAN : WebDashboardFetch(i, ok)
    \/ \E i \in DOMAIN wreq : WebDashboardBody(i)
    \/ \E b \in Browsers : WebLogout(b)

WebSpec == WebInit /\ [][WebNext]_vars

\* the key is an existing active API key of the running API
ValidKey(k) == k # <<>> /\ ActiveKeyRows(k[1]) # {}

\* C26: POST /login stores the key and redirects to the dashboard only for an
\* existing active API key, any other key is sent to /login?error=invalid,
\* and a protected page is rendered only for a valid session or header key.
C26_WebLoginAcceptsOnlyValidKeys ==
    /\ (wlast.route = "login" /\ wlast.result = "/") => ValidKey(wlast.key)
    /\ (wlast.route = "login" /\ wlast.key # <<>> /\ ~ValidKey(wlast.key)) =>
          wlast.result = "/login?error=invalid"
    /\ (wlast.route = "page" /\ wlast.result = "rendered") => ValidKey(wlast.key)
    /\ \A b \in Browsers : session[b] # <<>> => ValidKey(session[b])

----------------------------------------------------------------------------
(* utils/manifest and POST /assets/launcher under a fair schedule *)

\* What is sure to happen to a resolve request. The event loop runs the
\* continuation of the handler once Promise.all has settled. request() is
\* called with a method and headers only, with no timeout and no abort
\* signal: a request whose response headers stay out is settled by the HTTP
\* client alone (its idle timeout rejects it), while the end of a response
\* body is sent by the upstream host, and nothing in the handler or in
\* fetchAndSignManifest sets a deadline for it.
ResolveFairness ==
    /\ WF_vars(ResolveRespond)
    /\ WF_vars(ResolveFail)
    /\ \A t \in Tasks : WF_vars(FirstResponse(t))
    /\ \A t \in Tasks : WF_vars(RedirectResponse(t))

FairSpec == Init /\ [][Next]_vars /\ ResolveFairness

\* C27: every resolve request eventually produces a response, also when an
\* upstream manifest host never finishes its answer.
C27_ResolveEventuallyResponds == (hpc = "awaiting") ~> (hpc = "responded")

----------------------------------------------------------------------------
(* logEvent interleaved with markJoined, checked under HwidSpec *)

\* request i inserts its log row in this step
InsertsRow(i) ==
    /\ hreq[i].op = "log" /\ hreq[i].pc = "insert"
    /\ hreq'[i].pc = "done"

\* C28: under any interleaving of a logEvent for h with a concurrent
\* markJoined(h), no log row for h with the flag false is inserted while the
\* joined marker for h is in the store.
C28_NoFalseRowOnceMarked ==
    [][\A i \in DOMAIN hreq :
          (InsertsRow(i) /\ isHwidJoined(hreq[i].hwid)) =>
              hwid_logs'[Len(hwid_logs')].has_joined_with_this_hwid]_vars

----------------------------------------------------------------------------
(* database/index: initializeDatabase, getDatabase; app: the call at load *)

MaxHandOuts == 3

\* the store file found at start-up, the module variable db still null:
\* tables holds the tables of the file, client_id and social_media tell
\* whether launcher_assets has the column, news_client_id the same for news,
\* data whether launcher_assets holds a row
Store(tables, current, data) ==
    [handle |-> FALSE, pc |-> "open", stmt |-> 0, closing |-> FALSE,
     tables |-> tables, client_id |-> current, social_media |-> current,
     news_client_id |-> current, data |-> data]

\* no file, the file of a version without the client_id columns (with the
\* launcher_assets table alone or with every table, empty or not), the file
\* of the current version
StartStores ==
    {Store({}, FALSE, FALSE), Store(AllTables, TRUE, FALSE), Store(AllTables, TRUE, TRUE)}
    \cup {Store(tables, FALSE, data) :
             tables \in {{"launcher_assets"}, AllTables}, data \in BOOLEAN}

\* db = await open(...): the handle is assigned, or open throws
BootOpen(ok) ==
    /\ db.pc = "open"
    /\ db' = IF ok THEN [db EXCEPT !.handle = TRUE, !.pc = "tables", !.stmt = 1]
             ELSE [db EXCEPT !.pc = "failed"]
    /\ UNCHANGED <<java_assets, jreq, news, listing, session, wlast, wreq, handed, llast>>
    /\ UNCHANGED <<resolveVars, hwidVars, adminVars>>

\* the store after CREATE TABLE IF NOT EXISTS of table name: a table created
\* here has the current columns
CreateIfNotExists(name) ==
    IF name \in db.tables THEN db
    ELSE [db EXCEPT !.tables = @ \cup {name},
                    !.client_id = IF name = "launcher_assets" THEN TRUE ELSE @,
                    !.social_media = IF name = "launcher_assets" THEN TRUE ELSE @,
                    !.news_client_id = IF name = "news" THEN TRUE ELSE @]

\* await initializeTables(db), one awaited statement per step: the four
\* CREATE TABLE IF NOT EXISTS, whose failure is thrown on with the handle
\* left assigned, then ALTER TABLE news ADD COLUMN client_id and ALTER TABLE
\* launcher_assets ADD COLUMN social_media, whose failure is ignored
BootTables(ok) ==
    /\ db.pc = "tables"
    /\ db' =
         IF db.stmt <= Len(Tables)
         THEN IF ok THEN [CreateIfNotExists(Tables[db.stmt]) EXCEPT !.stmt = @ + 1]
              ELSE [db EXCEPT !.pc = "failed"]
         ELSE IF db.stmt = Len(Tables) + 1
         THEN [db EXCEPT !.news_client_id = @ \/ ok, !.stmt = @ + 1]
         ELSE [db EXCEPT !.social_media = @ \/ ok, !.pc = "pragma", !.stmt = 0]
    /\ UNCHANGED <<java_assets, jreq, news, listing, session, wlast, wreq, handed, llast>>
    /\ UNCHANGED <<resolveVars, hwidVars, adminVars>>

\* the store and the position after the statement migrateDatabase awaits at
\* db.pc has succeeded; the table it re-creates has no social_media column
Migrated ==
    CASE db.pc = "pragma" ->        \* PRAGMA table_info(launcher_assets)
            [db EXCEPT !.pc = IF db.client_id THEN "done" ELSE "select"]
      [] db.pc = "select" ->        \* SELECT * FROM launcher_assets LIMIT 1
            [db EXCEPT !.pc = IF db.data THEN "create_new" ELSE "drop_empty"]
      [] db.pc = "create_new" ->    \* CREATE TABLE launcher_assets_new
            [db EXCEPT !.tables = @ \cup {"launcher_assets_new"}, !.pc = "copy"]
      [] db.pc = "copy" ->          \* INSERT INTO launcher_assets_new SELECT ...
            [db EXCEPT !.pc = "drop_old"]
      [] db.pc = "drop_old" ->      \* DROP TABLE launcher_assets
            [db EXCEPT !.tables = @ \ {"launcher_assets"}, !.pc = "rename"]
      [] db.pc = "rename" ->        \* ALTER TABLE launcher_assets_new RENAME TO ...
            [db EXCEPT !.tables = (@ \ {"launcher_assets_new"}) \cup {"launcher_assets"},
                       !.client_id = TRUE, !.social_media = FALSE, !.pc = "done"]
      [] db.pc = "drop_empty" ->    \* DROP TABLE launcher_assets
            [db EXCEPT !.tables = @ \ {"launcher_assets"}, !.pc = "create"]
      [] db.pc = "create" ->        \* CREATE TABLE launcher_assets
            [db EXCEPT !.tables = @ \cup {"launcher_assets"},
                       !.client_id = TRUE, !.social_media = FALSE, !.pc = "done"]

MigrateSteps ==
    {"pragma", "select", "create_new", "copy", "drop_old", "rename", "drop_empty", "create"}

\* await migrateDatabase(db), one awaited statement per step; a failing
\* statement is thrown on and initializeDatabase rejects
BootMigrate(ok) ==
    /\ db.pc \in MigrateSteps
    /\ db' = IF ok THEN Migrated ELSE [db EXCEPT !.pc = "failed"]
    /\ UNCHANGED <<java_assets, jreq, news, listing, session, wlast, wreq, handed, llast>>
    /\ UNCHANGED <<resolveVars, hwidVars, adminVars>>

\* closeDatabase: if (db) await db.close() is issued
CloseDatabase ==
    /\ db.handle /\ ~db.closing
    /\ db' = [db EXCEPT !.closing = TRUE]
    /\ UNCHANGED <<java_assets, jreq, news, listing, session, wlast, wreq, handed, llast>>
    /\ UNCHANGED <<resolveVars, hwidVars, adminVars>>

\* closeDatabase: db.close() has resolved, db = null
DatabaseClosed ==
    /\ db.closing
    /\ db' = [db EXCEPT !.closing = FALSE, !.handle = FALSE]
    /\ UNCHANGED <<java_assets, jreq, news, listing, session, wlast, wreq, handed, llast>>
    /\ UNCHANGED <<resolveVars, hwidVars, adminVars>>

\* a request handler calls getDatabase
GetDatabase ==
    /\ Len(handed) < MaxHandOuts
    /\ handed' = Append(handed, [result |-> getDatabase, pc |-> db.pc,
                                 tables |-> AllTables \subseteq db.tables,
                                 migrated |-> db.client_id])
    /\ UNCHANGED <<java_assets, jreq, news, listing, session, wlast, wreq, db, llast>>
    /\ UNCHANGED <<resolveVars, hwidVars, adminVars>>

\* app.ts has called initializeDatabase() and does not await it
BootInit ==
    /\ ResolveIdle /\ HwidIdle /\ AdminIdle
    /\ java_assets = <<>>
    /\ jreq = <<>>
    /\ news = {}
    /\ listing = NoListing
    /\ session = [b \in Browsers |-> <<>>]
    /\ wlast = NoWebRequest
    /\ wreq = <<>>
    /\ db \in StartStores
    /\ handed = <<>>
    /\ llast = NoSubmission
    /\ SequenceIdle

BootNext ==
    \/ \E ok \in BOOLEAN : BootOpen(ok)
    \/ \E ok \in BOOLEAN : BootTables(ok)
    \/ \E ok \in BOOLEAN : BootMigrate(ok)
    \/ CloseDatabase
    \/ DatabaseClosed
    \/ GetDatabase

BootSpec == BootInit /\ [][BootNext]_vars

\* C30: getDatabase hands out the store handle only after initializeDatabase
\* has created the tables and run the migration; a request handled before
\* that gets the 'Database not initialized' error.
C30_HandleOnlyAfterInitialization ==
    \A k \in DOMAIN handed :
        /\ handed[k].result = "handle" =>
              handed[k].pc = "done" /\ handed[k].tables /\ handed[k].migrated
        /\ handed[k].pc # "done" => handed[k].result = "Database not initialized"

====
